---- MODULE Spec2Model ----
(***************************************************************************)
(* Verification model of the AI web builder front end:                     *)
(*   - parseXml (steps.ts): response text -> ordered list of steps         *)
(*   - convertStepsToFiles (App.tsx): steps -> file set                    *)
(*   - PreviewFrame, object-URL variant: lifecycle of the blob URL         *)
(*   - PreviewFrame, WebContainer variant: overlapping setupProject runs   *)
(*                                                                         *)
(* Text is modelled as a sequence of lexemes (tokens).  Each token stands  *)
(* for one piece of concrete text; the regular expressions of the source   *)
(* are evaluated on the token sequence.                                    *)
(***************************************************************************)
EXTENDS Integers, Sequences, FiniteSets, TLC

VARIABLES
    response,        \* fullAIResponse handed to parseXml (token sequence)
    generatedSteps,  \* value returned by parseXml in generateProject
    steps,           \* App state `steps`
    files,           \* App state `files`
    toast,           \* last error toast of generateProject ("" = none)
    pc,              \* "stream" before the response is complete, "done" after
    \* PreviewFrame, object-URL variant
    mounted,         \* "no" before the first render, "yes", "gone" after unmount
    blobUrlRef,      \* blobUrlRef.current: 0 = null, else an object URL
    status,          \* 'idle' | 'ready' | 'error'
    error,           \* <<>> = null, else <<message>>
    iframeAttached,  \* iframeRef.current is the iframe element
    iframeSrc,       \* iframeRef.current.src: 0 = never set, else an object URL
    objectUrls,      \* every URL made by URL.createObjectURL, in order of
                     \* creation: [bundle, revoked]; URL u is objectUrls[u]
    \* PreviewFrame, WebContainer variant
    now,             \* the last value of Date.now()
    runIdRef,        \* runIdRef.current
    url,             \* state `url`
    statusText,      \* state `status`
    isLoading,       \* state `isLoading`
    buildPhase,      \* state `buildPhase`
    logIdRef,        \* logIdRef.current: log lines added since the last reset
    devProcessRef,   \* devProcessRef.current: 0 = null, else a process
    serverReadyDisposeRef, \* 0 = null, else the listener it disposes
    runs,            \* the calls of setupProject, in order: [pc, runId]
    processes,       \* the processes spawned: [owner, state, killed, announced,
                     \* streaming]; process p is processes[p]
    listeners,       \* the 'server-ready' handlers registered: [owner, runId, active]
    \* createReactFileTree: the repair passes
    inputMap,        \* the file map before any pass
    currentMap,      \* the file map
    prevMap,         \* the file map before the last pass
    passes,          \* the passes applied, in order
    wasPatched,      \* what convertVanillaToReact returned last
    \* buildPreview: the bundle synthesis
    bundleFiles,     \* the flat files handed to the synthesis
    failing,         \* the paths of the files on which transform throws
    transformedChunks, \* the chunks, in bundle order: [path, code]
    built,           \* "no", or how the synthesis ended: "returned", "threw"
    \* Builder: the assembly of the file tree
    builderSteps,    \* the steps: [path, code, status]
    builderFiles,    \* the tree: a sequence of nodes
    builderThrew,    \* the effect ended in a TypeError
    \* useWebContainer: the module state, the boot calls, the hook instances
    webcontainerInstance, \* 0 = null, else the number of the boot call
    bootPromise,     \* 0 = null, else the number of the boot call
    boots,           \* the calls of WebContainer.boot: "pending", "resolved", "rejected"
    hooks,           \* the hook instances: [pc, promise, webcontainer, bootError]
    \* App: the generations
    gens,            \* the calls of generateProject: [pc, prompt]
    appIsLoading,    \* isLoading
    shown,           \* the generation whose steps and files are shown, 0 = none
    currentView,     \* "home" or "builder"
    \* PreviewFrame, WebContainer variant
    unmounted        \* the component has been unmounted

parseVars == <<response, generatedSteps, steps, toast, pc>>

hostVars == <<mounted, blobUrlRef, status, error, iframeAttached, iframeSrc, objectUrls>>

wcVars ==
    <<now, runIdRef, url, statusText, isLoading, buildPhase, logIdRef, devProcessRef,
      serverReadyDisposeRef, runs, processes, listeners>>

repairVars == <<inputMap, currentMap, prevMap, passes, wasPatched>>
bundleVars == <<bundleFiles, failing, transformedChunks, built>>

builderVars == <<builderSteps, builderFiles, builderThrew>>
bootVars == <<webcontainerInstance, bootPromise, boots, hooks>>
genVars == <<gens, appIsLoading, shown, currentView>>
laterVars == <<builderVars, bootVars, genVars, unmounted>>

vars == <<parseVars, files, hostVars, wcVars, repairVars, bundleVars, laterVars>>

\* Builder not mounted
BuilderUnused ==
    /\ builderSteps = <<>>
    /\ builderFiles = <<>>
    /\ builderThrew = FALSE

\* no component uses the hook
BootUnused ==
    /\ webcontainerInstance = 0
    /\ bootPromise = 0
    /\ boots = <<>>
    /\ hooks = <<>>

\* no generation started
GenUnused ==
    /\ gens = <<>>
    /\ appIsLoading = FALSE
    /\ shown = 0
    /\ currentView = "home"

LaterUnused == BuilderUnused /\ BootUnused /\ GenUnused /\ unmounted = FALSE

\* createReactFileTree not called
RepairUnused ==
    /\ inputMap = <<>>
    /\ currentMap = <<>>
    /\ prevMap = <<>>
    /\ passes = <<>>
    /\ wasPatched = FALSE

\* buildPreview not called
BundleUnused ==
    /\ bundleFiles = <<>>
    /\ failing = {}
    /\ transformedChunks = <<>>
    /\ built = "no"

\* PreviewFrame, WebContainer variant: useState / useRef initial values
WcUnused ==
    /\ now = 1
    /\ runIdRef = 0
    /\ url = ""
    /\ statusText = ""
    /\ isLoading = FALSE
    /\ buildPhase = "idle"
    /\ logIdRef = 0
    /\ devProcessRef = 0
    /\ serverReadyDisposeRef = 0
    /\ runs = <<>>
    /\ processes = <<>>
    /\ listeners = <<>>

(***************************************************************************)
(* File names and paths.  A name is base + "." + ext; a path is a list of  *)
(* folder segments followed by a name ("src/App.tsx").                     *)
(***************************************************************************)
FileName(b, e) == [base |-> b, ext |-> e]
FilePath(d, n) == [dir |-> d, name |-> n]

NameStr(n) == n.base \o "." \o n.ext

RECURSIVE DirStr(_)
DirStr(d) == IF d = <<>> THEN "" ELSE Head(d) \o "/" \o DirStr(Tail(d))

PathStr(p) == DirStr(p.dir) \o NameStr(p.name)

(***************************************************************************)
(* Tokens.                                                                 *)
(*   open(p)  <boltAction type="file" filePath="p">                        *)
(*   shell    <boltAction type="shell">                                    *)
(*   close    </boltAction>                                                *)
(*   bold(n)  **n**            hash(n)  ### n          line(n)  n:         *)
(*   ticks    ```              word(l)  the language tag after ```         *)
(*   nl       a newline                                                    *)
(*   deco     * (a list bullet)                                            *)
(*   txt(n)   n characters of code, none of them white space, markdown     *)
(*            decoration or part of a file name                            *)
(*   decl(c)  function c()                                                 *)
(*   rest(t)  token t without its leading markdown decoration              *)
(*   tail     the "on" left over when ### x.json is matched as x.js        *)
(***************************************************************************)
TagOpen(p) == [k |-> "open", p |-> p]
TagShell   == [k |-> "shell"]
TagClose   == [k |-> "close"]
Bold(n)    == [k |-> "bold", name |-> n]
Hash(n)    == [k |-> "hash", name |-> n]
Line(n)    == [k |-> "line", name |-> n]
Ticks      == [k |-> "ticks"]
Word(l)    == [k |-> "word", lang |-> l]
Nl         == [k |-> "nl"]
Deco       == [k |-> "deco"]
Txt(n)     == [k |-> "txt", n |-> n]
Decl(c)    == [k |-> "decl", c |-> c]
Rest(t)    == [k |-> "rest", of |-> t]
JsonTail   == [k |-> "tail"]

NameLen(n) == Len(n.base) + 1 + Len(n.ext)

\* number of characters of a token
RECURSIVE TokLen(_)
TokLen(t) ==
    CASE t.k = "open"  -> 35 + Len(PathStr(t.p))
      [] t.k = "shell" -> 26
      [] t.k = "close" -> 13
      [] t.k = "bold"  -> 4 + NameLen(t.name)
      [] t.k = "hash"  -> 4 + NameLen(t.name)
      [] t.k = "line"  -> 1 + NameLen(t.name)
      [] t.k = "ticks" -> 3
      [] t.k = "word"  -> Len(t.lang)
      [] t.k = "nl"    -> 1
      [] t.k = "deco"  -> 1
      [] t.k = "txt"   -> t.n
      [] t.k = "decl"  -> 11 + Len(t.c)
      [] t.k = "rest"  -> IF t.of.k = "bold" THEN TokLen(t.of) - 2
                                             ELSE TokLen(t.of) - 4
      [] t.k = "tail"  -> 2

RECURSIVE TextLen(_)
TextLen(s) == IF s = <<>> THEN 0 ELSE TokLen(Head(s)) + TextLen(Tail(s))

(***************************************************************************)
(* String.prototype.trim                                                   *)
(***************************************************************************)
RECURSIVE trimStart(_)
trimStart(s) ==
    IF s # <<>> /\ Head(s).k = "nl" THEN trimStart(Tail(s)) ELSE s

RECURSIVE trimEnd(_)
trimEnd(s) ==
    IF s # <<>> /\ s[Len(s)].k = "nl"
    THEN trimEnd(SubSeq(s, 1, Len(s) - 1))
    ELSE s

trim(s) == trimEnd(trimStart(s))

SetMin(S) == CHOOSE x \in S : \A y \in S : x <= y
SetMax(S) == CHOOSE x \in S : \A y \in S : y <= x

\* least index j in lo..Len(s) with s[j].k = kind, 0 when there is none
RECURSIVE IndexOfKind(_, _, _)
IndexOfKind(s, kind, lo) ==
    IF lo > Len(s) THEN 0
    ELSE IF s[lo].k = kind THEN lo
    ELSE IndexOfKind(s, kind, lo + 1)

(***************************************************************************)
(* xmlPattern, matched globally from position i                            *)
(***************************************************************************)
\* the pattern with a greedy body, [\s\S]* for [\s\S]*?: one match, from the
\* first opening tag to the last closing tag
xmlMatchesGreedy(r, i) ==
    LET opens == {o \in i..Len(r) :
                    r[o].k = "open" /\ \E c \in o + 1..Len(r) : r[c].k = "close"}
    IN IF opens = {} THEN <<>>
       ELSE LET o == SetMin(opens)
                c == SetMax({j \in o + 1..Len(r) : r[j].k = "close"})
            IN <<[filePath |-> r[o].p, body |-> SubSeq(r, o + 1, c - 1)]>>

RECURSIVE xmlMatches(_, _)
xmlMatches(r, i) ==
    IF i > Len(r) THEN <<>>
    ELSE IF r[i].k = "open"
    THEN LET j == IndexOfKind(r, "close", i + 1) IN
         IF j = 0 THEN xmlMatches(r, i + 1)
         ELSE <<[filePath |-> r[i].p, body |-> SubSeq(r, i + 1, j - 1)]>>
              \o xmlMatches(r, j + 1)
    ELSE xmlMatches(r, i + 1)

(***************************************************************************)
(* The fence regex ```(\w+)?\n([\s\S]*?)``` matched globally from i.       *)
(* An opener is ``` followed by an optional language word and a newline;   *)
(* the body ends at the next ```.                                          *)
(***************************************************************************)
HasOpenerAt(r, i) ==
    /\ i <= Len(r) /\ r[i].k = "ticks"
    /\ \/ i + 1 <= Len(r) /\ r[i + 1].k = "nl"
       \/ i + 2 <= Len(r) /\ r[i + 1].k = "word" /\ r[i + 2].k = "nl"

OpenerLen(r, i) == IF r[i + 1].k = "nl" THEN 2 ELSE 3

OpenerLang(r, i) == IF r[i + 1].k = "nl" THEN "" ELSE r[i + 1].lang

RECURSIVE codeBlockMatches(_, _)
codeBlockMatches(r, i) ==
    IF i > Len(r) THEN <<>>
    ELSE IF HasOpenerAt(r, i)
    THEN LET b == i + OpenerLen(r, i)
             j == IndexOfKind(r, "ticks", b) IN
         IF j = 0 THEN codeBlockMatches(r, i + 1)
         ELSE <<[language |-> OpenerLang(r, i), code |-> SubSeq(r, b, j - 1)]>>
              \o codeBlockMatches(r, j + 1)
    ELSE codeBlockMatches(r, i + 1)

(***************************************************************************)
(* extractCodeFromSection: the body of the first fenced block when there   *)
(* is one, else the text with the markdown decoration at the start of each *)
(* line removed.  stripMarkdown is .replace(/^\s*[\*#`\-\s]+/gm, ''): at   *)
(* the start of a line the longest run of white space, bullets, ticks,     *)
(* stars and hashes is deleted; bol tells whether the position is at the   *)
(* start of a line or inside such a run.  The second replace, of empty     *)
(* lines by '', deletes nothing.                                           *)
(***************************************************************************)
RECURSIVE stripMarkdown(_, _)
stripMarkdown(c, bol) ==
    IF c = <<>> THEN <<>>
    ELSE LET t == Head(c) IN
         IF bol /\ t.k \in {"nl", "deco", "ticks"}
         THEN stripMarkdown(Tail(c), TRUE)
         ELSE IF bol /\ t.k \in {"bold", "hash"}
         THEN <<Rest(t)>> \o stripMarkdown(Tail(c), FALSE)
         ELSE <<t>> \o stripMarkdown(Tail(c), t.k = "nl")

extractCodeFromSection(content) ==
    LET codeBlockMatch == codeBlockMatches(content, 1) IN
    IF codeBlockMatch # <<>>
    THEN trim(codeBlockMatch[1].code)
    ELSE trim(stripMarkdown(content, TRUE))

(***************************************************************************)
(* extractFileName: the first component declaration of the code gives      *)
(* <Name>.jsx; <<>> stands for null.                                       *)
(***************************************************************************)
extractFileName(code) ==
    LET j == IndexOfKind(code, "decl", 1) IN
    IF j = 0 THEN <<>> ELSE <<FileName(code[j].c, "jsx")>>

getFileExtension(language) ==
    CASE language = "javascript" -> "js"
      [] language = "jsx"        -> "jsx"
      [] language = "js"         -> "js"
      [] language = "typescript" -> "ts"
      [] language = "tsx"        -> "tsx"
      [] language = "css"        -> "css"
      [] language = "html"       -> "html"
      [] language = "json"       -> "json"
      [] OTHER                   -> "jsx"

(***************************************************************************)
(* fileHeaderPatterns, in the order of the source:                         *)
(*   "bold"  /\*\*(name.ext)\*\*/gi                                        *)
(*   "hash"  /###\s*(name.ext)/gi  -- the extension alternatives are tried *)
(*           in the order html?|css|jsx?|tsx?|json and nothing follows the *)
(*           group, so x.json is matched as x.js                           *)
(*   "line"  /^(name.ext):?\s*$/gmi -- the name alone on its line; \s*     *)
(*           takes the newlines that follow, but for the last one when     *)
(*           text follows                                                  *)
(* A match is [index, end, name, tail]: match.index, the position after    *)
(* match[0], match[1], and the part of the token left after match[0].      *)
(***************************************************************************)
fileHeaderPatterns == <<"bold", "hash", "line">>

RECURSIVE NlRun(_, _)
NlRun(r, i) == IF i <= Len(r) /\ r[i].k = "nl" THEN 1 + NlRun(r, i + 1) ELSE 0

MatchesAt(r, pattern, i) ==
    /\ r[i].k = pattern
    /\ pattern = "line" =>
          /\ i = 1 \/ r[i - 1].k = "nl"
          /\ i = Len(r) \/ r[i + 1].k = "nl"

MatchAt(r, pattern, i) ==
    CASE pattern = "bold" ->
           [index |-> i, end |-> i + 1, name |-> r[i].name, tail |-> <<>>]
      [] pattern = "hash" ->
           IF r[i].name.ext = "json"
           THEN [index |-> i, end |-> i + 1,
                 name |-> FileName(r[i].name.base, "js"), tail |-> <<JsonTail>>]
           ELSE [index |-> i, end |-> i + 1, name |-> r[i].name, tail |-> <<>>]
      [] pattern = "line" ->
           LET run == NlRun(r, i + 1) IN
           [index |-> i,
            end |-> IF i + run = Len(r) THEN Len(r) + 1
                    ELSE IF run = 0 THEN i + 1 ELSE i + run,
            name |-> r[i].name, tail |-> <<>>]

RECURSIVE matchAll(_, _, _)
matchAll(r, pattern, i) ==
    IF i > Len(r) THEN <<>>
    ELSE IF MatchesAt(r, pattern, i)
    THEN LET m == MatchAt(r, pattern, i) IN <<m>> \o matchAll(r, pattern, m.end)
    ELSE matchAll(r, pattern, i + 1)

\* the loop with every section running to the end of the response
RECURSIVE headerSectionsToEnd(_, _)
headerSectionsToEnd(r, patterns) ==
    IF patterns = <<>> THEN <<>>
    ELSE LET matches == matchAll(r, Head(patterns), 1) IN
         IF Len(matches) > 1
         THEN [i \in 1..Len(matches) |->
                 [name |-> matches[i].name,
                  content |-> extractCodeFromSection(
                                matches[i].tail \o SubSeq(r, matches[i].end, Len(r)))]]
         ELSE headerSectionsToEnd(r, Tail(patterns))

\* the loop over fileHeaderPatterns: the first pattern with two or more
\* matches splits the response, the others are not tried
RECURSIVE headerSections(_, _)
headerSections(r, patterns) ==
    IF patterns = <<>> THEN <<>>
    ELSE LET matches == matchAll(r, Head(patterns), 1) IN
         IF Len(matches) > 1
         THEN [i \in 1..Len(matches) |->
                 LET startPos == matches[i].end
                     endPos == IF i < Len(matches) THEN matches[i + 1].index - 1
                               ELSE Len(r)
                 IN [name |-> matches[i].name,
                     content |-> extractCodeFromSection(
                                   matches[i].tail \o SubSeq(r, startPos, endPos))]]
         ELSE headerSections(r, Tail(patterns))

MinCodeLen == 20

\* the loop that takes a block from MinCodeLen characters on
RECURSIVE codeBlockSectionsFromMin(_, _)
codeBlockSectionsFromMin(blocks, blockIndex) ==
    IF blocks = <<>> THEN <<>>
    ELSE LET code == Head(blocks).code
             language == Head(blocks).language IN
         IF code # <<>> /\ TextLen(trim(code)) >= MinCodeLen
         THEN LET found == extractFileName(code)
                  fileName == IF found # <<>> THEN found[1]
                              ELSE FileName("Component" \o ToString(blockIndex + 1),
                                            getFileExtension(language))
              IN <<[name |-> fileName, content |-> trim(code)]>>
                 \o codeBlockSectionsFromMin(Tail(blocks), blockIndex + 1)
         ELSE codeBlockSectionsFromMin(Tail(blocks), blockIndex)

\* the while loop over codeBlockRegex.exec, blockIndex counting accepted blocks
RECURSIVE codeBlockSections(_, _)
codeBlockSections(blocks, blockIndex) ==
    IF blocks = <<>> THEN <<>>
    ELSE LET code == Head(blocks).code
             language == Head(blocks).language IN
         IF code # <<>> /\ TextLen(trim(code)) > MinCodeLen
         THEN LET found == extractFileName(code)
                  fileName == IF found # <<>> THEN found[1]
                              ELSE FileName("Component" \o ToString(blockIndex + 1),
                                            getFileExtension(language))
              IN <<[name |-> fileName, content |-> trim(code)]>>
                 \o codeBlockSections(Tail(blocks), blockIndex + 1)
         ELSE codeBlockSections(Tail(blocks), blockIndex)

\* the resolution without the .js rule
sectionPathCssOnly(fileName) ==
    IF fileName = FileName("index", "html") \/ fileName = FileName("projects", "json")
    THEN FilePath(<<>>, fileName)
    ELSE IF fileName.ext = "css"
    THEN FilePath(<<>>, fileName)
    ELSE FilePath(<<"src">>, fileName)

\* "Determine proper path based on file type"
sectionPath(fileName) ==
    IF fileName = FileName("index", "html") \/ fileName = FileName("projects", "json")
    THEN FilePath(<<>>, fileName)
    ELSE IF fileName.ext = "css" \/ fileName.ext = "js"
    THEN FilePath(<<>>, fileName)
    ELSE IF fileName.ext = "tsx" \/ fileName.ext = "jsx" \/ fileName.ext = "ts"
    THEN FilePath(<<"src">>, fileName)
    ELSE FilePath(<<"src">>, fileName)

Step(index, title, path, code) ==
    [id |-> index, title |-> "Create " \o title, status |-> "completed",
     path |-> path, code |-> code]

sectionSteps(sections, from) ==
    [i \in 1..Len(sections) |->
        Step(from + i - 1, NameStr(sections[i].name),
             sectionPath(sections[i].name), sections[i].content)]

\* parseXml without the early return and without the `sections.length === 0`
\* test before the fence scan: every strategy adds its steps
parseXmlEveryStrategy(r) ==
    LET xml == xmlMatches(r, 1)
        tagged == [i \in 1..Len(xml) |->
                     Step(i - 1, PathStr(xml[i].filePath), xml[i].filePath,
                          trim(xml[i].body))]
        sections == headerSections(r, fileHeaderPatterns)
                       \o codeBlockSections(codeBlockMatches(r, 1), 0)
    IN tagged \o sectionSteps(sections, Len(xml))

parseXml(r) ==
    LET xml == xmlMatches(r, 1) IN
    IF Len(xml) > 0
    THEN [i \in 1..Len(xml) |->
            Step(i - 1, PathStr(xml[i].filePath), xml[i].filePath, trim(xml[i].body))]
    ELSE LET fromHeaders == headerSections(r, fileHeaderPatterns)
             sections == IF Len(fromHeaders) = 0
                         THEN codeBlockSections(codeBlockMatches(r, 1), 0)
                         ELSE fromHeaders
         IN sectionSteps(sections, 0)

(***************************************************************************)
(* convertStepsToFiles (App.tsx): a Map keyed by path, filled in step      *)
(* order; Map.set on a present key replaces the value in place.  Steps     *)
(* with an empty path or empty code are skipped (`step.path && step.code`).*)
(***************************************************************************)
FileItem(path, content) ==
    [name |-> NameStr(path.name), type |-> "file", path |-> path, content |-> content]

mapSet(fileMap, item) ==
    IF \E i \in 1..Len(fileMap) : fileMap[i].path = item.path
    THEN [i \in 1..Len(fileMap) |->
            IF fileMap[i].path = item.path THEN item ELSE fileMap[i]]
    ELSE Append(fileMap, item)

RECURSIVE convertStepsFrom(_, _)
convertStepsFrom(ss, fileMap) ==
    IF ss = <<>> THEN fileMap
    ELSE LET step == Head(ss) IN
         IF step.code # <<>>
         THEN convertStepsFrom(Tail(ss), mapSet(fileMap, FileItem(step.path, step.code)))
         ELSE convertStepsFrom(Tail(ss), fileMap)

convertStepsToFiles(ss) == convertStepsFrom(ss, <<>>)

(***************************************************************************)
(* Responses.  The model is checked on four families of responses: all     *)
(* short token sequences, and concatenations of tagged blocks, of header   *)
(* sections and of fenced blocks with other text around them.  Lexical     *)
(* states what the tokens stand for: a language word follows ```, and a    *)
(* ### header is not directly followed by a file name (the two would read  *)
(* as one name).                                                           *)
(***************************************************************************)
MaxTokens == 3
MaxItems == 3

AppTsx     == FileName("App", "tsx")
StylesCss  == FileName("styles", "css")
DataJson   == FileName("data", "json")
IndexHtml  == FileName("index", "html")

AllNames ==
    {IndexHtml, FileName("projects", "json"), StylesCss, FileName("app", "js"),
     AppTsx, FileName("Card", "jsx"), FileName("util", "ts"),
     FileName("page", "htm"), DataJson}

Languages ==
    {"javascript", "jsx", "js", "typescript", "tsx", "css", "html", "json", "py"}

TagPaths == {FilePath(<<"src">>, AppTsx), FilePath(<<>>, IndexHtml)}

Alphabet ==
    {TagOpen(FilePath(<<"src">>, AppTsx)), TagShell, TagClose,
     Bold(AppTsx), Hash(AppTsx), Hash(DataJson), Line(AppTsx), Line(StylesCss),
     Ticks, Word("js"), Nl, Deco, Txt(21), Decl("Card")}

Lexical(r) ==
    \A i \in 1..Len(r) :
        /\ r[i].k = "word" => i > 1 /\ r[i - 1].k = "ticks"
        /\ r[i].k = "line" => i = 1 \/ r[i - 1].k # "hash"

RECURSIVE Flatten(_)
Flatten(ss) == IF ss = <<>> THEN <<>> ELSE Head(ss) \o Flatten(Tail(ss))

ItemSeqs(Items) == UNION {[1..m -> Items] : m \in 1..MaxItems}

TaggedBlock(p, body) == <<TagOpen(p)>> \o body \o <<TagClose>>

FencedBlock(langTag, body) == <<Ticks>> \o langTag \o <<Nl>> \o body \o <<Ticks>>

Bodies == {<<>>, <<Nl, Txt(5), Nl>>, <<Txt(21), Nl, Decl("Card")>>}

TaggedItems ==
    {TaggedBlock(p, b) : p \in TagPaths, b \in Bodies}
    \cup {<<Txt(5)>>, <<Nl>>, <<Hash(AppTsx), Nl>>,
          FencedBlock(<<>>, <<Txt(21)>>)}

Header(kind, n) == [k |-> kind, name |-> n]

HeaderItems ==
    UNION {{<<Header(h, AppTsx), Nl>>,
            <<Header(h, StylesCss), Nl, Txt(5), Nl>>,
            <<Header(h, DataJson), Nl, Deco, Txt(5), Nl, Nl>>,
            <<Header(h, IndexHtml), Nl, Txt(1)>>
                \o FencedBlock(<<Word("js")>>, <<Txt(21), Nl>>) \o <<Nl>>}
           : h \in {"bold", "hash", "line"}}

FencedItems ==
    {FencedBlock(<<>>, <<Txt(21)>>),
     FencedBlock(<<Word("js")>>, <<Txt(20)>>),
     FencedBlock(<<Word("css")>>, <<Nl, Txt(21), Nl>>),
     FencedBlock(<<Word("tsx")>>, <<Decl("Card"), Txt(21)>>),
     FencedBlock(<<Word("js")>>, <<Txt(5)>>),
     FencedBlock(<<Word("html")>>, <<Txt(19), Deco, Deco>>),
     <<Txt(5)>>, <<Nl>>, <<Bold(AppTsx)>>}

ShortResponses ==
    {r \in UNION {[1..m -> Alphabet] : m \in 0..MaxTokens} : Lexical(r)}

NamedResponses ==
    {<<Bold(n1), Nl, Txt(5), Nl, Bold(n2), Txt(5)>> : n1 \in AllNames, n2 \in AllNames}
    \cup {<<Hash(n1), Nl, Txt(5), Nl, Hash(n2), Txt(5)>> : n1 \in AllNames, n2 \in AllNames}
    \cup {<<Line(n1), Nl, Txt(5), Nl, Line(n2), Nl, Txt(5)>> : n1 \in AllNames, n2 \in AllNames}
    \cup {FencedBlock(<<Word(l)>>, <<Txt(21)>>) \o <<Nl>> \o FencedBlock(<<>>, <<Txt(21)>>)
            : l \in Languages}

ResponseSet ==
    ShortResponses
    \cup {Flatten(s) : s \in ItemSeqs(TaggedItems)}
    \cup {Flatten(s) : s \in ItemSeqs(HeaderItems)}
    \cup {Flatten(s) : s \in ItemSeqs(FencedItems)}
    \cup NamedResponses

(***************************************************************************)
(* PreviewFrame, object-URL variant.  The component state is handled as a  *)
(* record h of the host variables; an object URL is its index in           *)
(* objectUrls, which counts the revokeObjectURL calls made on it.          *)
(***************************************************************************)
MaxUrls == 3

\* useRef(null), useState('idle'), useState(null); nothing rendered yet
HostConstructed ==
    [blobUrlRef |-> 0, status |-> "idle", error |-> <<>>,
     iframeAttached |-> FALSE, iframeSrc |-> 0, objectUrls |-> <<>>]

HostState ==
    [blobUrlRef |-> blobUrlRef, status |-> status, error |-> error,
     iframeAttached |-> iframeAttached, iframeSrc |-> iframeSrc,
     objectUrls |-> objectUrls]

revokeObjectURL(urls, u) == [urls EXCEPT ![u].revoked = @ + 1]

\* the cleanup without the revoke
cleanupPreviousNoRevoke(h) == [h EXCEPT !.blobUrlRef = 0]

\* the cleanup that leaves the revoked URL in the ref
cleanupPreviousKeepsRef(h) ==
    IF h.blobUrlRef # 0
    THEN [h EXCEPT !.objectUrls = revokeObjectURL(h.objectUrls, h.blobUrlRef)]
    ELSE h

\* "Cleanup previous blob URL"
cleanupPrevious(h) ==
    IF h.blobUrlRef # 0
    THEN [h EXCEPT !.objectUrls = revokeObjectURL(h.objectUrls, h.blobUrlRef),
                   !.blobUrlRef = 0]
    ELSE h

\* What the component returns: the placeholder for no files, the error panel
\* for status 'error', the iframe otherwise.
rendersIframe(f, st) == f # <<>> /\ st # "error"

\* Commit of a render: the iframe element stays when it was rendered before,
\* a newly rendered one has no src, an unrendered one is detached.
render(h, f) ==
    IF rendersIframe(f, h.status)
    THEN IF h.iframeAttached THEN h
         ELSE [h EXCEPT !.iframeAttached = TRUE, !.iframeSrc = 0]
    ELSE [h EXCEPT !.iframeAttached = FALSE, !.iframeSrc = 0]

\* What buildPreview, new Blob and createObjectURL do: return, or throw a
\* value that is an Error with its message or something else.
Returns == [thrown |-> FALSE, isError |-> FALSE, message |-> ""]

Throws(isError, message) == [thrown |-> TRUE, isError |-> isError, message |-> message]

BuildOutcomes ==
    {Returns,
     Throws(TRUE, "Cannot read properties of undefined (reading 'endsWith')"),
     Throws(FALSE, "")}

\* the catch block that shows the message of whatever was thrown
catchBuildRawMessage(h, e) ==
    [h EXCEPT !.error = <<e.message>>, !.status = "error"]

catchBuild(h, e) ==
    LET msg == IF e.isError THEN e.message ELSE "Preview build failed" IN
    [h EXCEPT !.error = <<msg>>, !.status = "error"]

\* the effect on [files], run after the commit of the render with files f
filesEffect(h, f, outcome) ==
    LET h1 == cleanupPrevious(h) IN
    IF Len(f) = 0 THEN [h1 EXCEPT !.status = "idle"]
    ELSE IF outcome.thrown THEN catchBuild(h1, outcome)
    ELSE LET blobUrl == Len(h1.objectUrls) + 1
             h2 == [h1 EXCEPT !.objectUrls = Append(@, [bundle |-> f, revoked |-> 0]),
                              !.blobUrlRef = blobUrl]
             h3 == IF h2.iframeAttached THEN [h2 EXCEPT !.iframeSrc = blobUrl] ELSE h2
         IN [h3 EXCEPT !.status = "ready", !.error = <<>>]

\* a render with files f, its effect, and the render that the state set in
\* the effect brings
renderWith(h, f, outcome) == render(filesEffect(render(h, f), f, outcome), f)

\* the cleanup of the unmount effect
unmountCleanup(h) ==
    LET h1 == IF h.blobUrlRef # 0
              THEN [h EXCEPT !.objectUrls = revokeObjectURL(h.objectUrls, h.blobUrlRef)]
              ELSE h
    IN [h1 EXCEPT !.iframeAttached = FALSE, !.iframeSrc = 0]

HostFileSets ==
    {<<>>,
     <<FileItem(FilePath(<<"src">>, AppTsx), <<Decl("App")>>)>>,
     <<FileItem(FilePath(<<"src">>, AppTsx), <<Decl("App")>>),
       FileItem(FilePath(<<>>, StylesCss), <<Txt(5)>>)>>}

HostAssign(h) ==
    /\ blobUrlRef' = h.blobUrlRef
    /\ status' = h.status
    /\ error' = h.error
    /\ iframeAttached' = h.iframeAttached
    /\ iframeSrc' = h.iframeSrc
    /\ objectUrls' = h.objectUrls

HostUnused ==
    /\ mounted = "no"
    /\ blobUrlRef = HostConstructed.blobUrlRef
    /\ status = HostConstructed.status
    /\ error = HostConstructed.error
    /\ iframeAttached = HostConstructed.iframeAttached
    /\ iframeSrc = HostConstructed.iframeSrc
    /\ objectUrls = HostConstructed.objectUrls

InitHost ==
    /\ response = <<>>
    /\ generatedSteps = <<>>
    /\ steps = <<>>
    /\ files = <<>>
    /\ toast = ""
    /\ pc = "stream"
    /\ HostUnused
    /\ WcUnused
    /\ RepairUnused
    /\ BundleUnused
    /\ LaterUnused

\* the first render, with the files of the parent
HostMount(f, outcome) ==
    /\ mounted = "no"
    /\ mounted' = "yes"
    /\ files' = f
    /\ HostAssign(renderWith(HostState, f, outcome))
    /\ UNCHANGED <<parseVars, repairVars, bundleVars, laterVars, wcVars>>

\* the parent passes a new files array
FilesChange(f, outcome) ==
    /\ mounted = "yes"
    /\ Len(objectUrls) < MaxUrls
    /\ files' = f
    /\ HostAssign(renderWith(HostState, f, outcome))
    /\ UNCHANGED <<parseVars, repairVars, bundleVars, laterVars, mounted, wcVars>>

HostUnmount ==
    /\ mounted = "yes"
    /\ mounted' = "gone"
    /\ HostAssign(unmountCleanup(HostState))
    /\ UNCHANGED <<parseVars, repairVars, bundleVars, laterVars, files, wcVars>>

NextHost ==
    \/ \E f \in HostFileSets, outcome \in BuildOutcomes : HostMount(f, outcome)
    \/ \E f \in HostFileSets, outcome \in BuildOutcomes : FilesChange(f, outcome)
    \/ HostUnmount

SpecHost == InitHost /\ [][NextHost]_vars

(***************************************************************************)
(* PreviewFrame, WebContainer variant: setupProject.  Every call is a run; *)
(* a run is suspended at each await (pc "kill", "mount", "spawn") and the  *)
(* steps of different runs interleave there.  The container is booted.     *)
(***************************************************************************)
MaxRuns == 2
MaxClock == 2
MaxLogs == 4

\* what Date.now() can return after it has returned `now`
Times == {t \in {now, now + 1} : t <= MaxClock}

PreviewUrl == "http://localhost:3000"

\* devProcessRef.current.kill()
kill(procs, p) == [procs EXCEPT ![p].killed = TRUE]

\* from `const runId = Date.now()` to the call of webContainer.mount
claimRun(r, calls, t) ==
    /\ now' = t
    /\ runs' = [calls EXCEPT ![r].runId = t, ![r].pc = "mount"]
    /\ runIdRef' = t
    /\ isLoading' = TRUE
    /\ url' = ""
    /\ logIdRef' = 2
    /\ buildPhase' = "setup"
    /\ statusText' = "Preparing preview..."

\* the catch block of setupProject
catchSetup(r, what) ==
    /\ logIdRef' = logIdRef + 1
    /\ statusText' = "Error: " \o what
    /\ isLoading' = FALSE
    /\ buildPhase' = "error"
    /\ runs' = [runs EXCEPT ![r].pc = "failed"]

\* the effect on [webContainer, files]
FilesEffect(f, t) ==
    /\ ~unmounted
    /\ files' = f
    /\ IF Len(f) = 0
       THEN /\ statusText' = "No files to preview"
            /\ url' = ""
            /\ isLoading' = FALSE
            /\ UNCHANGED <<now, runIdRef, buildPhase, logIdRef, devProcessRef, runs,
                           processes>>
       ELSE /\ Len(runs) < MaxRuns
            /\ LET r == Len(runs) + 1
                   calls == Append(runs, [pc |-> "kill", runId |-> 0])
               IN IF devProcessRef # 0
                  THEN /\ processes' = kill(processes, devProcessRef)
                       /\ runs' = calls
                       /\ UNCHANGED <<now, runIdRef, url, statusText, isLoading,
                                      buildPhase, logIdRef, devProcessRef>>
                  ELSE /\ claimRun(r, calls, t)
                       /\ UNCHANGED <<devProcessRef, processes>>
    /\ UNCHANGED <<parseVars, repairVars, bundleVars, laterVars, hostVars, serverReadyDisposeRef, listeners>>

\* the continuation after `await devProcessRef.current.kill()`
AfterKill(r, t) ==
    /\ runs[r].pc = "kill"
    /\ devProcessRef' = 0
    /\ claimRun(r, runs, t)
    /\ UNCHANGED <<parseVars, repairVars, bundleVars, laterVars, files, hostVars, serverReadyDisposeRef, processes,
                   listeners>>

\* the continuation after `await webContainer.mount(fileTree)`
AfterMount(r, ok) ==
    /\ runs[r].pc = "mount"
    /\ IF ~ok THEN /\ catchSetup(r, "mount")
                   /\ UNCHANGED <<runIdRef, url>>
       ELSE IF runIdRef # runs[r].runId
       THEN /\ logIdRef' = logIdRef + 1
            /\ runs' = [runs EXCEPT ![r].pc = "returned"]
            /\ UNCHANGED <<runIdRef, url, statusText, isLoading, buildPhase>>
       ELSE /\ logIdRef' = logIdRef + 2
            /\ buildPhase' = "starting"
            /\ statusText' = "Starting preview server..."
            /\ runs' = [runs EXCEPT ![r].pc = "spawn"]
            /\ UNCHANGED <<runIdRef, url, isLoading>>
    /\ UNCHANGED <<parseVars, repairVars, bundleVars, laterVars, files, hostVars, now, devProcessRef, serverReadyDisposeRef,
                   processes, listeners>>

\* attachServerReadyListener(runId): dispose the registered handler, register one
attachServerReadyListener(r) ==
    LET disposed == IF serverReadyDisposeRef # 0
                    THEN [listeners EXCEPT ![serverReadyDisposeRef].active = FALSE]
                    ELSE listeners
    IN /\ listeners' = Append(disposed,
                              [owner |-> r, runId |-> runs[r].runId, active |-> TRUE])
       /\ serverReadyDisposeRef' = Len(listeners) + 1

\* the continuation after `await webContainer.spawn('node', ['server.cjs'])`
AfterSpawn(r, ok) ==
    /\ runs[r].pc = "spawn"
    /\ IF ~ok THEN /\ catchSetup(r, "spawn")
                   /\ UNCHANGED <<runIdRef, url, devProcessRef, serverReadyDisposeRef,
                                  processes, listeners>>
       ELSE /\ processes' = Append(processes,
                                   [owner |-> r, state |-> "running", killed |-> FALSE,
                                    announced |-> FALSE, streaming |-> TRUE])
            /\ devProcessRef' = Len(processes) + 1
            /\ attachServerReadyListener(r)
            /\ runs' = [runs EXCEPT ![r].pc = "done"]
            /\ UNCHANGED <<runIdRef, url, statusText, isLoading, buildPhase, logIdRef>>
    /\ UNCHANGED <<parseVars, repairVars, bundleVars, laterVars, files, hostVars, now>>

ExitCodes == {0, 1}

WcFileSets == {<<>>, <<FileItem(FilePath(<<"src">>, AppTsx), <<Decl("App")>>)>>}

\* devProcess.exit.then(...)
ProcessExit(p, code) ==
    /\ processes[p].state = "running"
    /\ processes' = [processes EXCEPT ![p].state = "exited", ![p].streaming = FALSE]
    /\ devProcessRef' = 0
    /\ IF runIdRef = runs[processes[p].owner].runId /\ code # 0
       THEN /\ logIdRef' = logIdRef + 1
            /\ statusText' = "Server exited unexpectedly"
            /\ isLoading' = FALSE
            /\ buildPhase' = "error"
       ELSE UNCHANGED <<logIdRef, statusText, isLoading, buildPhase>>
    /\ UNCHANGED <<parseVars, repairVars, bundleVars, laterVars, files, hostVars, now, runIdRef, url, serverReadyDisposeRef,
                   runs, listeners>>

\* the container emits 'server-ready' for the server of process p; every
\* registered handler runs
ServerReady(p) ==
    /\ processes[p].state = "running" /\ ~processes[p].killed
    /\ ~processes[p].announced
    /\ processes' = [processes EXCEPT ![p].announced = TRUE]
    /\ IF \E l \in 1..Len(listeners) :
             listeners[l].active /\ listeners[l].runId = runIdRef
       THEN /\ logIdRef' = logIdRef + 2
            /\ url' = PreviewUrl
            /\ statusText' = "Ready!"
            /\ buildPhase' = "ready"
            /\ isLoading' = FALSE
       ELSE UNCHANGED <<logIdRef, url, statusText, buildPhase, isLoading>>
    /\ UNCHANGED <<parseVars, repairVars, bundleVars, laterVars, files, hostVars, now, runIdRef, devProcessRef,
                   serverReadyDisposeRef, runs, listeners>>

\* streamProcessOutput: one reader.read() that gives a chunk
StreamOutput(p) ==
    /\ processes[p].state = "running" /\ processes[p].streaming
    /\ IF runIdRef # runs[processes[p].owner].runId
       THEN /\ processes' = [processes EXCEPT ![p].streaming = FALSE]
            /\ UNCHANGED logIdRef
       ELSE /\ logIdRef < MaxLogs
            /\ logIdRef' = logIdRef + 1
            /\ UNCHANGED processes
    /\ UNCHANGED <<parseVars, repairVars, bundleVars, laterVars, files, hostVars, now, runIdRef, url, statusText, isLoading,
                   buildPhase, devProcessRef, serverReadyDisposeRef, runs, listeners>>

\* the cleanup of the effect with [] dependencies, run at unmount; the
\* functions suspended at an await continue afterwards
Unmount ==
    /\ ~unmounted
    /\ unmounted' = TRUE
    /\ listeners' = IF serverReadyDisposeRef # 0
                    THEN [listeners EXCEPT ![serverReadyDisposeRef].active = FALSE]
                    ELSE listeners
    /\ serverReadyDisposeRef' = 0
    /\ processes' = IF devProcessRef # 0 THEN kill(processes, devProcessRef)
                    ELSE processes
    /\ devProcessRef' = 0
    /\ UNCHANGED <<parseVars, repairVars, bundleVars, builderVars, bootVars, genVars,
                   files, hostVars, now, runIdRef, url, statusText, isLoading,
                   buildPhase, logIdRef, runs>>

InitWc ==
    /\ response = <<>>
    /\ generatedSteps = <<>>
    /\ steps = <<>>
    /\ files = <<>>
    /\ toast = ""
    /\ pc = "stream"
    /\ HostUnused
    /\ WcUnused
    /\ RepairUnused
    /\ BundleUnused
    /\ LaterUnused

NextWc ==
    \/ \E f \in WcFileSets, t \in Times : FilesEffect(f, t)
    \/ \E r \in 1..Len(runs), t \in Times : AfterKill(r, t)
    \/ \E r \in 1..Len(runs), ok \in BOOLEAN : AfterMount(r, ok)
    \/ \E r \in 1..Len(runs), ok \in BOOLEAN : AfterSpawn(r, ok)
    \/ \E p \in 1..Len(processes), code \in ExitCodes : ProcessExit(p, code)
    \/ \E p \in 1..Len(processes) : ServerReady(p)
    \/ \E p \in 1..Len(processes) : StreamOutput(p)
    \/ Unmount

SpecWc == InitWc /\ [][NextWc]_vars

(***************************************************************************)
(* App.generateProject, from the end of the stream on: the response is     *)
(* complete, it is parsed and the steps are converted to files.            *)
(***************************************************************************)
InitParse ==
    /\ response \in ResponseSet
    /\ generatedSteps = <<>>
    /\ steps = <<>>
    /\ files = <<>>
    /\ toast = ""
    /\ pc = "stream"
    /\ HostUnused
    /\ WcUnused
    /\ RepairUnused
    /\ BundleUnused
    /\ LaterUnused

GenerateProject ==
    /\ pc = "stream"
    /\ IF trim(response) = <<>>
       THEN /\ toast' = "AI returned an empty response. Please try again."
            /\ pc' = "failed"
            /\ UNCHANGED <<generatedSteps, steps, files>>
       ELSE /\ generatedSteps' = parseXml(response)
            /\ IF Len(generatedSteps') = 0
               THEN /\ toast' = "No files could be parsed from the AI response."
                    /\ pc' = "failed"
                    /\ UNCHANGED <<steps, files>>
               ELSE /\ steps' = generatedSteps'
                    /\ files' = convertStepsToFiles(generatedSteps')
                    /\ pc' = "done"
                    /\ UNCHANGED toast
    /\ UNCHANGED <<response, hostVars, wcVars, repairVars, bundleVars, laterVars>>

NextParse == GenerateProject

SpecParse == InitParse /\ [][NextParse]_vars

(***************************************************************************)
(*                     Properties of parseXml                              *)
(***************************************************************************)
NoFilesParsed == "No files could be parsed from the AI response."

\* parseXml was called and has returned
ParseReturned == pc = "done" \/ (pc = "failed" /\ toast = NoFilesParsed)

\* the i-th smallest element of a set of numbers
Nth(S, i) == CHOOSE x \in S : Cardinality({y \in S : y < x}) = i - 1

\* s without its leading and trailing white space
Trimmed(s) ==
    LET solid == {i \in 1..Len(s) : s[i].k # "nl"} IN
    IF solid = {} THEN <<>> ELSE SubSeq(s, SetMin(solid), SetMax(solid))

IsFileTag(t) == t.k = "open" \/ t.k = "close"

\* the closing tag that ends the block opened at o: the next closing tag,
\* when no other file tag stands between (0 when there is none)
BlockEnd(r, o) ==
    LET ends == {c \in o + 1..Len(r) :
                   /\ r[c].k = "close"
                   /\ \A m \in o + 1..c - 1 : ~IsFileTag(r[m])}
    IN IF r[o].k = "open" /\ ends # {} THEN SetMin(ends) ELSE 0

BlockOpens(r) == {o \in 1..Len(r) : BlockEnd(r, o) # 0}

\* every opening file tag that has a closing tag after it is closed before
\* the next opening tag: no block is nested in an unclosed one
WellFormedTagged(r) ==
    \A o \in 1..Len(r) :
        (r[o].k = "open" /\ \E c \in o + 1..Len(r) : r[c].k = "close")
            => o \in BlockOpens(r)

\* C1: for a response with n >= 1 well-formed tagged file blocks the result
\* has exactly n steps; step i has the path attribute of the i-th block in
\* document order and, as code, the block body without leading and trailing
\* white space.
C1_StepPerTaggedBlock ==
    (pc # "stream" /\ WellFormedTagged(response) /\ BlockOpens(response) # {}) =>
        LET opens == BlockOpens(response) IN
        /\ ParseReturned
        /\ Len(generatedSteps) = Cardinality(opens)
        /\ \A i \in 1..Len(generatedSteps) :
              LET o == Nth(opens, i) IN
              /\ generatedSteps[i].path = response[o].p
              /\ generatedSteps[i].code =
                    Trimmed(SubSeq(response, o + 1, BlockEnd(response, o) - 1))
              /\ generatedSteps[i].id = i - 1

\* two blocks with different paths, one of them with white space around its body
C1_Witness ==
    /\ pc = "done"
    /\ WellFormedTagged(response)
    /\ Cardinality(BlockOpens(response)) = 2
    /\ generatedSteps[1].path # generatedSteps[2].path
    /\ \E o \in BlockOpens(response) : response[o + 1].k = "nl"
    /\ \E i \in 1..2 : generatedSteps[i].code # <<>>

\* the response has a match of xmlPattern
XmlFound(r) ==
    \E o \in 1..Len(r) : r[o].k = "open" /\ \E c \in o + 1..Len(r) : r[c].k = "close"

HeaderCount(r, pattern) == Len(matchAll(r, pattern, 1))

HeaderFound(r) == \E p \in {"bold", "hash", "line"} : HeaderCount(r, p) > 1

\* the first of the header patterns with two or more matches
FirstPattern(r) ==
    IF HeaderCount(r, "bold") > 1 THEN "bold"
    ELSE IF HeaderCount(r, "hash") > 1 THEN "hash" ELSE "line"

\* a fenced block whose trimmed body is longer than MinCodeLen
FencedFound(r) ==
    \E i \in 1..Len(r) :
        /\ HasOpenerAt(r, i)
        /\ \E j \in i + OpenerLen(r, i)..Len(r) :
              /\ r[j].k = "ticks"
              /\ \A m \in i + OpenerLen(r, i)..j - 1 : r[m].k # "ticks"
              /\ TextLen(Trimmed(SubSeq(r, i + OpenerLen(r, i), j - 1))) > MinCodeLen

\* C2: when no strategy finds a section (no tagged block, no header pattern
\* with two or more matches, no fenced block of sufficient length) parseXml
\* returns exactly one step, the fallback default file, never the empty list.
C2_FallbackStep ==
    (ParseReturned /\ ~XmlFound(response) /\ ~HeaderFound(response)
        /\ ~FencedFound(response))
        => Len(generatedSteps) = 1

\* step st is the content of a tagged block of r
FromTaggedBlock(st, r) ==
    \E o \in 1..Len(r) : \E c \in o + 1..Len(r) :
        /\ r[o].k = "open" /\ r[c].k = "close"
        /\ st.path = r[o].p
        /\ st.code = Trimmed(SubSeq(r, o + 1, c - 1))

\* step st is named by a header of r of the given pattern
FromHeader(st, r, pattern) ==
    \E h \in 1..Len(r) :
        /\ MatchesAt(r, pattern, h)
        /\ st.path.name = MatchAt(r, pattern, h).name

\* step st is the body of a fenced block of r
FromFencedBlock(st, r) ==
    \E i \in 1..Len(r) :
        /\ HasOpenerAt(r, i)
        /\ \E j \in i + OpenerLen(r, i)..Len(r) :
              /\ r[j].k = "ticks"
              /\ st.code = Trimmed(SubSeq(r, i + OpenerLen(r, i), j - 1))

NumberOf(r, kind) == Cardinality({i \in 1..Len(r) : r[i].k = kind})

\* C3: one strategy per call, the first that yields a section.  With a
\* tagged block in the response every step is a tagged block and nothing
\* else yields a step; with none and a header pattern that matches twice
\* every step is a header section, one per header of that pattern, and no
\* fenced block is scanned; fenced blocks give the steps only when neither
\* of the two found a section.
C3_OneStrategy ==
    ParseReturned =>
        IF XmlFound(response)
        THEN /\ \A i \in 1..Len(generatedSteps) :
                   FromTaggedBlock(generatedSteps[i], response)
             /\ Len(generatedSteps) <= NumberOf(response, "close")
        ELSE IF HeaderFound(response)
        THEN /\ \A i \in 1..Len(generatedSteps) :
                   FromHeader(generatedSteps[i], response, FirstPattern(response))
             /\ Len(generatedSteps) = HeaderCount(response, FirstPattern(response))
        ELSE /\ \A i \in 1..Len(generatedSteps) :
                   FromFencedBlock(generatedSteps[i], response)
             /\ Len(generatedSteps) > 0 <=> FencedFound(response)

\* a tagged block with a fenced block of sufficient length and a header
\* outside of it
C3_Witness ==
    /\ pc = "done"
    /\ XmlFound(response)
    /\ FencedFound(response)
    /\ NumberOf(response, "hash") > 0
    /\ Len(generatedSteps) = 1

\* the text between header match i and the next one (the end of the response
\* for the last)
TextBetween(r, ms, i) ==
    ms[i].tail \o SubSeq(r, ms[i].end,
                         IF i < Len(ms) THEN ms[i + 1].index - 1 ELSE Len(r))

\* C4 as stated: with no tagged block and k >= 2 matches of a header
\* pattern there are k steps, and the content of step i is the text strictly
\* between header match i and header match i+1.
C4_RawTextBetween ==
    \A p \in {"bold", "hash", "line"} :
        (ParseReturned /\ ~XmlFound(response) /\ HeaderCount(response, p) > 1) =>
            LET ms == matchAll(response, p, 1) IN
            /\ Len(generatedSteps) = Len(ms)
            /\ \A i \in 1..Len(ms) :
                  i <= Len(generatedSteps)
                      => generatedSteps[i].code = TextBetween(response, ms, i)

\* C4: with no tagged block, P the first of the header patterns with
\* k >= 2 matches gives k steps, one per match of P in order, named by the
\* match; the content of step i is extractCodeFromSection of the text between
\* match i and match i+1: the trimmed body of its first fenced block, or else
\* the text without the markdown decoration at its line starts, trimmed.
C4_CleanedTextBetween ==
    (pc # "stream" /\ ~XmlFound(response) /\ HeaderFound(response)) =>
        LET ms == matchAll(response, FirstPattern(response), 1) IN
        /\ ParseReturned
        /\ Len(generatedSteps) = Len(ms)
        /\ \A i \in 1..Len(generatedSteps) :
              /\ generatedSteps[i].path.name = ms[i].name
              /\ generatedSteps[i].code =
                    extractCodeFromSection(TextBetween(response, ms, i))

\* ### headers (the second pattern), a section whose content is not the raw text
C4_Witness ==
    /\ pc = "done"
    /\ ~XmlFound(response)
    /\ HeaderFound(response)
    /\ FirstPattern(response) = "hash"
    /\ Len(generatedSteps) >= 2
    /\ \E i \in 1..Len(generatedSteps) :
          /\ generatedSteps[i].code # <<>>
          /\ generatedSteps[i].code #
                TextBetween(response, matchAll(response, "hash", 1), i)
    /\ generatedSteps[Len(generatedSteps)].code # <<>>

SrcDir == <<"src">>

\* C5 as stated: the bare name for index.html and for .css and .js names,
\* src/<name> for every other name; a tagged path as given.
C5_PathRulesAsStated ==
    (ParseReturned /\ ~XmlFound(response)) =>
        \A i \in 1..Len(generatedSteps) :
            LET path == generatedSteps[i].path IN
            path.dir = IF \/ path.name = FileName("index", "html")
                          \/ path.name.ext \in {"css", "js"}
                       THEN <<>> ELSE SrcDir

\* C5: a section name resolves to the bare name when it is index.html or
\* projects.json or ends in .css or .js, to src/<name> otherwise; a tagged
\* block's path is the path attribute of its tag.
C5_PathRules ==
    ParseReturned =>
        \A i \in 1..Len(generatedSteps) :
            LET path == generatedSteps[i].path IN
            IF XmlFound(response)
            THEN \E o \in 1..Len(response) :
                    response[o].k = "open" /\ response[o].p = path
            ELSE path.dir = IF \/ path.name = FileName("index", "html")
                               \/ path.name = FileName("projects", "json")
                               \/ path.name.ext \in {"css", "js"}
                            THEN <<>> ELSE SrcDir

\* projects.json kept bare next to a name that goes under src/
C5_Witness ==
    /\ pc = "done"
    /\ ~XmlFound(response)
    /\ \E i, j \in 1..Len(generatedSteps) :
          /\ generatedSteps[i].path = FilePath(<<>>, FileName("projects", "json"))
          /\ generatedSteps[j].path.dir = SrcDir

\* C6: when two or more steps carry the same path p, the files hold exactly
\* one File node with path p and its content is that of the last of these
\* steps, whatever the contents, the empty content included.
C6_LastStepWins ==
    pc = "done" =>
        \A i, j \in 1..Len(steps) :
            (/\ i < j
             /\ steps[i].path = steps[j].path
             /\ \A m \in j + 1..Len(steps) : steps[m].path # steps[j].path)
            => /\ Cardinality({f \in 1..Len(files) : files[f].path = steps[j].path}) = 1
               /\ \A f \in 1..Len(files) :
                     files[f].path = steps[j].path => files[f].content = steps[j].code

(***************************************************************************)
(*            Properties of the object-URL preview host                    *)
(***************************************************************************)
LiveUrls == {u \in 1..Len(objectUrls) : objectUrls[u].revoked = 0}

\* C7: at most one object URL made by the host is un-revoked, and it is the
\* one made last: when a URL is created for a new file set every URL made
\* before it has been revoked.
C7_OneLiveUrl ==
    /\ Cardinality(LiveUrls) <= 1
    /\ \A u \in 1..Len(objectUrls) - 1 : objectUrls[u].revoked >= 1
    /\ \A u \in LiveUrls : mounted = "yes" /\ blobUrlRef = u

\* a second bundle is live, the first one is revoked
C7_Witness ==
    /\ mounted = "yes"
    /\ Len(objectUrls) >= 2
    /\ LiveUrls = {Len(objectUrls)}
    /\ objectUrls[1].revoked = 1

\* C8: no object URL is revoked twice, and after unmount every URL the host
\* made has been revoked exactly once, whatever file sets (empty ones
\* included) and build failures came before.
C8_RevokedExactlyOnce ==
    /\ \A u \in 1..Len(objectUrls) : objectUrls[u].revoked <= 1
    /\ mounted = "gone" => \A u \in 1..Len(objectUrls) : objectUrls[u].revoked = 1

\* unmounted after two bundles, the second one released by the unmount
C8_Witness ==
    /\ mounted = "gone"
    /\ Len(objectUrls) >= 2
    /\ blobUrlRef = Len(objectUrls)
    /\ \A u \in 1..Len(objectUrls) : objectUrls[u].revoked = 1

\* the bundle of URL u is on display
Displayed(u) == iframeAttached /\ iframeSrc = u

BuildFailed ==
    /\ status = "error"
    /\ error # <<>> /\ error[1] # ""
    /\ LiveUrls = {}
    /\ blobUrlRef = 0
    /\ \A u \in 1..Len(objectUrls) : ~Displayed(u)
    /\ ~iframeAttached

\* C9: a render with a non-empty file set whose bundle construction throws
\* leaves the status 'error' with a non-empty message, no live object URL,
\* and the error panel in place of the iframe, so that no earlier bundle is
\* displayed.
C9_FailedBuild ==
    [][\A f \in HostFileSets \ {<<>>} : \A outcome \in BuildOutcomes :
          (outcome.thrown /\ (HostMount(f, outcome) \/ FilesChange(f, outcome)))
              => BuildFailed']_vars

\* a failed build after a bundle was on display
C9_Witness ==
    /\ mounted = "yes"
    /\ files # <<>>
    /\ status = "error"
    /\ error = <<"Preview build failed">>
    /\ Len(objectUrls) >= 1
    /\ ~iframeAttached

(***************************************************************************)
(*            Properties of the WebContainer preview                       *)
(***************************************************************************)
\* a run called after r has taken its run id
Superseded(r) == \E newer \in r + 1..Len(runs) : runs[newer].runId # 0

\* a step of run r: its continuation after an await, the exit callback or
\* the log stream of its process, its server-ready handler
StepOfRun(r) ==
    \/ \E t \in Times : AfterKill(r, t)
    \/ \E ok \in BOOLEAN : AfterMount(r, ok)
    \/ \E ok \in BOOLEAN : AfterSpawn(r, ok)
    \/ \E p \in 1..Len(processes) :
          /\ processes[p].owner = r
          /\ \/ \E code \in ExitCodes : ProcessExit(p, code)
             \/ StreamOutput(p)
    \/ /\ \E p \in 1..Len(processes) : ServerReady(p)
       /\ \A l \in 1..Len(listeners) : listeners[l].active => listeners[l].owner = r

\* C10: once a newer run has started, no step of an older run changes the
\* url, the status text, the build phase or the loading flag.
C10_StaleRunsChangeNothing ==
    [][\A r \in 1..Len(runs) :
          (Superseded(r) /\ StepOfRun(r))
              => UNCHANGED <<url, statusText, buildPhase, isLoading>>]_vars

\* the run called last
LatestRun == Len(runs)

FlatFile(path, content) == [path |-> path, content |-> content]

ImportDefault(id, from) == [s |-> "importDefault", id |-> id, from |-> from]
ImportNamed(id, from) == [s |-> "importNamed", id |-> id, from |-> from]
ImportMixed(id, from) == [s |-> "importMixed", id |-> id, from |-> from]
ImportOpen == [s |-> "importOpen"]
Member(id) == [s |-> "member", id |-> id]
CloseFrom(from) == [s |-> "closeFrom", from |-> from]
\* the path of a stylesheet import: its folder segments, then the file name
CssPath(segs, name) == [segs |-> segs, name |-> name]
ImportCss(css) == [s |-> "importCss", css |-> css]
ImportCssAs(id, css) == [s |-> "importCssAs", id |-> id, css |-> css]
JsxTag(id) == [s |-> "tag", id |-> id]
ImportWord == [s |-> "importWord"]
CodeText == [s |-> "text"]

mapHas(fileMap, path) == \E i \in 1..Len(fileMap) : fileMap[i].path = path

mapGet(fileMap, path) == fileMap[CHOOSE i \in 1..Len(fileMap) : fileMap[i].path = path]

mapDelete(fileMap, path) == SelectSeq(fileMap, LAMBDA f : f.path # path)

\* /\.(tsx|jsx)$/.test(path)
IsTsxJsx(path) == path.name.ext \in {"tsx", "jsx"}

\* a file that fixMissingImports enters in componentFiles
IsImportTarget(path) == IsTsxJsx(path) /\ path.name.base # "main"

\* componentFiles.has(name), componentFiles.get(name): the last file of the
\* map with that base name
HasComponentFile(fileMap, name) ==
    \E i \in 1..Len(fileMap) :
        IsImportTarget(fileMap[i].path) /\ fileMap[i].path.name.base = name

ComponentFile(fileMap, name) ==
    fileMap[SetMax({i \in 1..Len(fileMap) :
                      IsImportTarget(fileMap[i].path)
                          /\ fileMap[i].path.name.base = name})].path

RECURSIVE JoinSlash(_)
JoinSlash(segs) ==
    IF Len(segs) = 1 THEN segs[1] ELSE segs[1] \o "/" \o JoinSlash(Tail(segs))

RECURSIVE CommonPrefix(_, _)
CommonPrefix(a, b) ==
    IF a # <<>> /\ b # <<>> /\ Head(a) = Head(b)
    THEN 1 + CommonPrefix(Tail(a), Tail(b))
    ELSE 0

RECURSIVE Repeat(_, _)
Repeat(str, n) == IF n = 0 THEN "" ELSE str \o Repeat(str, n - 1)

\* the relative path that climbs from no folder at all
getRelativeImportPathNoUps(from, to) ==
    LET common == CommonPrefix(from.dir, to.dir)
        remaining == SubSeq(to.dir, common + 1, Len(to.dir))
    IN "./" \o JoinSlash(remaining \o <<to.name.base>>)

getRelativeImportPath(from, to) ==
    LET common == CommonPrefix(from.dir, to.dir)
        ups == Len(from.dir) - common
        prefix == IF ups > 0 THEN Repeat("../", ups) ELSE "./"
        remaining == SubSeq(to.dir, common + 1, Len(to.dir))
    IN prefix \o JoinSlash(remaining \o <<to.name.base>>)

\* the end of the match of importRegex that starts at an `import {`: the
\* next part with a closing brace, which is followed by its `from '...'`
BraceEnd(parts, i) ==
    LET ends == {j \in i + 1..Len(parts) :
                   parts[j].s \in {"closeFrom", "importNamed", "importMixed"}}
    IN IF ends = {} THEN 0 ELSE SetMin(ends)

\* the names between the braces, split at the commas: a member counts when
\* nothing but members stands between it and the opening brace or the
\* comma before it
BraceNames(parts, i, j) ==
    {parts[m].id : m \in {n \in i + 1..j - 1 :
                            /\ parts[n].s = "member"
                            /\ parts[n - 1].s \in {"importOpen", "member"}}}

\* "Collect already-imported identifiers": the matches of importRegex from i
RECURSIVE existingImports(_, _)
existingImports(parts, i) ==
    IF i > Len(parts) THEN {}
    ELSE IF parts[i].s \in {"importDefault", "importNamed", "importCssAs"}
    THEN {parts[i].id} \cup existingImports(parts, i + 1)
    ELSE IF parts[i].s = "importOpen" /\ BraceEnd(parts, i) # 0
    THEN BraceNames(parts, i, BraceEnd(parts, i))
            \cup existingImports(parts, BraceEnd(parts, i) + 1)
    ELSE existingImports(parts, i + 1)

\* the loop over jsxTagRegex: the import lines to add, in order of first use
RECURSIVE missingImports(_, _, _, _)
missingImports(fileMap, filePath, parts, existing) ==
    IF parts = <<>> THEN <<>>
    ELSE LET tagName == Head(parts).id IN
         IF \/ Head(parts).s # "tag"
            \/ tagName \in existing
            \/ tagName = filePath.name.base
            \/ ~HasComponentFile(fileMap, tagName)
         THEN missingImports(fileMap, filePath, Tail(parts), existing)
         ELSE <<ImportDefault(tagName,
                    getRelativeImportPath(filePath, ComponentFile(fileMap, tagName)))>>
              \o missingImports(fileMap, filePath, Tail(parts),
                                existing \cup {tagName})

\* the part holds the text "import "
HasImportWord(part) ==
    part.s \in {"importDefault", "importNamed", "importMixed", "importOpen",
                "importCss", "importCssAs", "importWord"}

\* the line of content.lastIndexOf('import '), 0 when there is none
lastImportLine(lines) ==
    LET with == {n \in 1..Len(lines) :
                   \E m \in 1..Len(lines[n]) : HasImportWord(lines[n][m])}
    IN IF with = {} THEN 0 ELSE SetMax(with)

\* "Insert after existing imports, or at top of file"
insertImports(lines, missing) ==
    LET at == lastImportLine(lines)
        asLines == [n \in 1..Len(missing) |-> <<missing[n]>>]
    IN IF at = 0 THEN asLines \o <<<<>>>> \o lines
       ELSE IF at < Len(lines)
       THEN SubSeq(lines, 1, at) \o asLines \o SubSeq(lines, at + 1, Len(lines))
       ELSE SubSeq(lines, 1, at - 1)
               \o <<lines[at] \o <<missing[1]>>>>
               \o Tail(asLines) \o <<<<>>>>

fixMissingImportsIn(fileMap, file) ==
    LET parts == Flatten(file.content)
        missing == missingImports(fileMap, file.path, parts, existingImports(parts, 1))
    IN IF Len(missing) > 0
       THEN [file EXCEPT !.content = insertImports(file.content, missing)]
       ELSE file

fixMissingImports(fileMap) ==
    [i \in 1..Len(fileMap) |->
        IF IsTsxJsx(fileMap[i].path)
        THEN fixMissingImportsIn(fileMap, fileMap[i])
        ELSE fileMap[i]]

\* /\.(tsx|jsx|ts|js)$/.test(filePath)
IsScript(path) == path.name.ext \in {"tsx", "jsx", "ts", "js"}

\* "Resolve relative to current file": .. drops a folder, . is skipped
RECURSIVE resolveParts(_, _)
resolveParts(resolvedParts, segs) ==
    IF segs = <<>> THEN resolvedParts
    ELSE IF Head(segs) = ".."
    THEN resolveParts(IF resolvedParts = <<>> THEN <<>>
                      ELSE SubSeq(resolvedParts, 1, Len(resolvedParts) - 1),
                      Tail(segs))
    ELSE IF Head(segs) = "."
    THEN resolveParts(resolvedParts, Tail(segs))
    ELSE resolveParts(Append(resolvedParts, Head(segs)), Tail(segs))

resolveCss(filePath, css) == FilePath(resolveParts(filePath.dir, css.segs), css.name)

\* the positions of the line where /import\s+['"](.+\.css)['"]/ can start
CssImportsOf(line) == {m \in 1..Len(line) : line[m].s = "importCss"}

\* the filter of fixBrokenCssImports: the line stays when it has no
\* stylesheet import or when the imported path is in the map.  The group
\* (.+\.css) is greedy: with another .css' later in the line the path read is
\* not that of a file.
keepsLine(fileMap, filePath, line) ==
    IF CssImportsOf(line) = {} THEN TRUE
    ELSE LET m == SetMin(CssImportsOf(line)) IN
         IF \E n \in m + 1..Len(line) : line[n].s \in {"importCss", "importCssAs"}
         THEN FALSE
         ELSE mapHas(fileMap, resolveCss(filePath, line[m].css))

fixBrokenCssImports(fileMap) ==
    [i \in 1..Len(fileMap) |->
        IF IsScript(fileMap[i].path)
        THEN [fileMap[i] EXCEPT
                !.content = SelectSeq(@, LAMBDA line :
                                keepsLine(fileMap, fileMap[i].path, line))]
        ELSE fileMap[i]]

\* synthesized text: the converted root, its stylesheet, the placeholder root
Generated(what) == [s |-> "generated", what |-> what]

\* script text that handles the DOM (addEventListener, querySelector, ...)
DomCode == [s |-> "domCode"]

SrcApp(ext) == FilePath(<<"src">>, FileName("App", ext))

RootIndexHtml == FilePath(<<>>, FileName("index", "html"))
SrcIndexHtml == FilePath(<<"src">>, FileName("index", "html"))
PortfolioIndexHtml == FilePath(<<"portfolio">>, FileName("index", "html"))
SrcAppCss == FilePath(<<"src">>, FileName("App", "css"))

InNodeModules(path) == \E i \in 1..Len(path.dir) : path.dir[i] = "node_modules"

\* the .js files that convertVanillaToReact takes as scripts
IsVanillaJs(path) ==
    path.name.ext = "js" /\ ~InNodeModules(path) /\ path.name.base # "vite.config"

\* the .css files that convertVanillaToReact takes as stylesheets
IsVanillaCss(path) ==
    path.name.ext = "css" /\ ~InNodeModules(path) /\ path.name # FileName("index", "css")

generateReactComponent(jsFiles) ==
    LET needsState == \E i \in 1..Len(jsFiles) :
                         \E n \in 1..Len(jsFiles[i].content) :
                            \E m \in 1..Len(jsFiles[i].content[n]) :
                               jsFiles[i].content[n][m].s = "domCode"
        importsCss == <<ImportCss(CssPath(<<".">>, FileName("App", "css")))>>
    IN (IF needsState THEN <<<<ImportNamed("useEffect", "react")>>>> ELSE <<>>)
          \o <<importsCss, <<>>, <<Generated("converted")>>, <<>>>>

generateReactCSS(cssFiles) ==
    <<<<Generated("css")>>>> \o Flatten([i \in 1..Len(cssFiles) |-> cssFiles[i].content])

RECURSIVE mapDeleteAll(_, _)
mapDeleteAll(fileMap, doomed) ==
    IF doomed = <<>> THEN fileMap
    ELSE mapDeleteAll(mapDelete(fileMap, Head(doomed).path), Tail(doomed))

\* fileMap.set(path, file)
mapPut(fileMap, file) ==
    IF mapHas(fileMap, file.path)
    THEN [i \in 1..Len(fileMap) |->
            IF fileMap[i].path = file.path THEN file ELSE fileMap[i]]
    ELSE Append(fileMap, file)

\* convertVanillaToReact: [map, patched], the map after the call and the
\* value returned
convertVanillaToReact(fileMap) ==
    IF mapHas(fileMap, SrcApp("tsx")) \/ mapHas(fileMap, SrcApp("jsx"))
    THEN [map |-> fileMap, patched |-> FALSE]
    ELSE IF ~(\/ mapHas(fileMap, RootIndexHtml) \/ mapHas(fileMap, SrcIndexHtml)
              \/ mapHas(fileMap, PortfolioIndexHtml))
    THEN [map |-> fileMap, patched |-> FALSE]
    ELSE LET jsFiles == SelectSeq(fileMap, LAMBDA f : IsVanillaJs(f.path))
             cssFiles == SelectSeq(fileMap, LAMBDA f : IsVanillaCss(f.path))
             withApp == mapPut(fileMap,
                               FlatFile(SrcApp("tsx"), generateReactComponent(jsFiles)))
             withCss == mapPut(withApp, FlatFile(SrcAppCss, generateReactCSS(cssFiles)))
             noHtml == mapDelete(mapDelete(withCss, RootIndexHtml), SrcIndexHtml)
         IN [map |-> mapDeleteAll(mapDeleteAll(noHtml, jsFiles), cssFiles),
             patched |-> TRUE]

defaultAppContent(extension) ==
    <<<<ImportDefault("React", "react")>>, <<>>, <<Generated("placeholder")>>, <<>>>>

appCandidates == <<SrcApp("tsx"), SrcApp("ts"), SrcApp("jsx"), SrcApp("js")>>

\* createReactFileTree up to the repaired file map: conversion, root
\* discovery or synthesis, the two import repairs
repairedFileMap(fileMap) ==
    LET converted == convertVanillaToReact(fileMap)
        map == converted.map
        hasTypeScript == \E i \in 1..Len(map) : map[i].path.name.ext \in {"ts", "tsx"}
        found == {c \in 1..Len(appCandidates) : mapHas(map, appCandidates[c])}
        inferredAppExtension ==
            IF found # {} THEN appCandidates[SetMin(found)].name.ext
            ELSE IF hasTypeScript THEN "tsx" ELSE "jsx"
        appExtension == IF inferredAppExtension = "ts" THEN "tsx"
                        ELSE IF inferredAppExtension = "js" THEN "jsx"
                        ELSE inferredAppExtension
        appPath == IF found # {} THEN appCandidates[SetMin(found)]
                   ELSE SrcApp(appExtension)
        withApp == IF ~mapHas(map, appPath) /\ ~converted.patched
                   THEN mapPut(map, FlatFile(appPath, defaultAppContent(appExtension)))
                   ELSE map
    IN fixBrokenCssImports(fixMissingImports(withApp))

(***************************************************************************)
(* File sets handed to createReactFileTree: a component project (a root    *)
(* component with one of several import layouts, with or without a Card    *)
(* component, stylesheets and an entry file) or a vanilla site (any        *)
(* choice of markup, script, stylesheet and root files).                   *)
(***************************************************************************)
MaxPasses == 2

CardPath == FilePath(<<"src", "components">>, FileName("Card", "tsx"))
CardFrom == "./components/Card"
AppCssImport == ImportCss(CssPath(<<".">>, FileName("App", "css")))

AppContents ==
    {<<<<ImportDefault("React", "react")>>, <<JsxTag("Card")>>>>,
     <<<<ImportOpen>>, <<Member("useState")>>, <<CloseFrom("react")>>,
       <<JsxTag("Card")>>, <<>>>>,
     <<<<ImportOpen>>, <<Member("useState")>>, <<Member("Card")>>,
       <<CloseFrom("./components")>>, <<JsxTag("Card")>>, <<>>>>,
     <<<<ImportMixed("Card", CardFrom)>>, <<JsxTag("Card")>>, <<>>>>,
     <<<<ImportNamed("Card", CardFrom)>>, <<JsxTag("Card")>>, <<>>>>,
     <<<<JsxTag("Card")>>, <<JsxTag("Footer")>>, <<JsxTag("Card")>>>>,
     <<<<AppCssImport>>, <<ImportDefault("Card", CardFrom)>>, <<JsxTag("Card")>>, <<>>>>,
     <<<<ImportCssAs("styles", CssPath(<<".">>, FileName("App.module", "css")))>>,
       <<CodeText>>, <<JsxTag("App")>>>>,
     <<<<JsxTag("Card")>>, <<ImportWord>>, <<CodeText>>>>,
     <<<<CodeText>>, <<JsxTag("Card")>>, <<AppCssImport>>>>,
     <<<<ImportCss(CssPath(<<".", "styles">>, FileName("theme", "css")))>>,
       <<AppCssImport>>, <<CodeText>>>>}

CardContents ==
    {<<<<CodeText>>>>,
     <<<<ImportCss(CssPath(<<"..">>, FileName("App", "css")))>>, <<JsxTag("Card")>>>>,
     <<<<ImportCss(CssPath(<<"..", ".", "styles">>, FileName("theme", "css")))>>,
       <<JsxTag("App")>>>>}

Plain == <<<<CodeText>>>>

\* zero or one file
Optional(file) == {<<>>, <<file>>}

HomePath == FilePath(<<"src", "pages">>, FileName("Home", "tsx"))

ComponentProjects ==
    {<<FlatFile(SrcApp("tsx"), app)>> \o card \o css \o main \o home :
        home \in Optional(FlatFile(HomePath, <<<<JsxTag("Card")>>, <<JsxTag("App")>>>>)),
        app \in AppContents,
        card \in {<<>>} \cup {<<FlatFile(CardPath, c)>> : c \in CardContents},
        css \in Optional(FlatFile(SrcAppCss, Plain)),
        main \in Optional(FlatFile(FilePath(<<"src">>, FileName("main", "tsx")),
                                   <<<<ImportDefault("App", "./App")>>, <<JsxTag("App")>>>>))}

VanillaSites ==
    {html \o script \o style \o indexCss \o config \o root \o appCss :
        html \in Optional(FlatFile(RootIndexHtml, Plain))
                    \cup {<<FlatFile(PortfolioIndexHtml, Plain)>>,
                          <<FlatFile(SrcIndexHtml, Plain)>>},
        script \in Optional(FlatFile(FilePath(<<>>, FileName("script", "js")),
                                     <<<<DomCode>>>>)),
        style \in Optional(FlatFile(FilePath(<<>>, StylesCss), Plain)),
        indexCss \in Optional(FlatFile(FilePath(<<"src">>, FileName("index", "css")), Plain)),
        config \in Optional(FlatFile(FilePath(<<>>, FileName("vite.config", "js")), Plain)),
        root \in {<<>>} \cup {<<FlatFile(SrcApp(e), <<<<JsxTag("Card")>>>>)>> :
                                 e \in {"tsx", "ts", "jsx", "js"}},
        appCss \in Optional(FlatFile(SrcAppCss, Plain))}

RepairInputs == ComponentProjects \cup VanillaSites

InitRepair ==
    /\ response = <<>>
    /\ generatedSteps = <<>>
    /\ steps = <<>>
    /\ files = <<>>
    /\ toast = ""
    /\ pc = "stream"
    /\ HostUnused
    /\ WcUnused
    /\ BundleUnused
    /\ LaterUnused
    /\ inputMap \in RepairInputs
    /\ currentMap = inputMap
    /\ prevMap = inputMap
    /\ passes = <<>>
    /\ wasPatched = FALSE

RepairPass(name, result) ==
    /\ Len(passes) < MaxPasses
    /\ passes' = Append(passes, name)
    /\ prevMap' = currentMap
    /\ currentMap' = result
    /\ UNCHANGED <<parseVars, files, hostVars, wcVars, bundleVars, laterVars, inputMap>>

FixMissingImports ==
    /\ RepairPass("fixMissingImports", fixMissingImports(currentMap))
    /\ UNCHANGED wasPatched

FixBrokenCssImports ==
    /\ RepairPass("fixBrokenCssImports", fixBrokenCssImports(currentMap))
    /\ UNCHANGED wasPatched

ConvertVanillaToReact ==
    /\ RepairPass("convertVanillaToReact", convertVanillaToReact(currentMap).map)
    /\ wasPatched' = convertVanillaToReact(currentMap).patched

CreateReactFileTree ==
    /\ passes = <<>>
    /\ RepairPass("createReactFileTree", repairedFileMap(currentMap))
    /\ wasPatched' = convertVanillaToReact(currentMap).patched

NextRepair ==
    \/ FixMissingImports
    \/ FixBrokenCssImports
    \/ ConvertVanillaToReact
    \/ CreateReactFileTree

SpecRepair == InitRepair /\ [][NextRepair]_vars

\* the passes applied so far are exactly these
Applied(names) == passes = names

\* C12: fixMissingImports is idempotent: a second application to the map
\* that the first one produced changes no file content.
C12_FixMissingImportsIdempotent ==
    Applied(<<"fixMissingImports", "fixMissingImports">>) => currentMap = prevMap

\* the stylesheet imports of a line, whatever their form
StylesheetImports(line) ==
    {m \in 1..Len(line) : line[m].s \in {"importCss", "importCssAs"}}

\* the line imports a stylesheet that is not a file of the map
Dangling(map, filePath, line) ==
    \E m \in StylesheetImports(line) : ~mapHas(map, resolveCss(filePath, line[m].css))

\* C13: after fixBrokenCssImports every script file holds its former lines
\* in order, without the lines that import a stylesheet whose resolved path
\* names no file of the map; no other line is removed or changed.
C13_DanglingCssImportsRemoved ==
    Applied(<<"fixBrokenCssImports">>) =>
        \A i \in 1..Len(prevMap) :
            IsScript(prevMap[i].path) =>
                currentMap[i].content =
                    SelectSeq(prevMap[i].content,
                              LAMBDA line : ~Dangling(prevMap, prevMap[i].path, line))

\* the identifiers that the import statements of a file bind
ImportedIn(parts) ==
    {parts[m].id : m \in {n \in 1..Len(parts) :
        parts[n].s \in {"importDefault", "importNamed", "importMixed",
                        "importCssAs", "member"}}}

TagsIn(parts) ==
    {parts[m].id : m \in {n \in 1..Len(parts) : parts[n].s = "tag"}}

\* the number of lines `import T from '...'` in a content
ImportLinesOf(content, T) ==
    Cardinality({n \in 1..Len(content) :
                   \E m \in 1..Len(content[n]) :
                      content[n][m].s = "importDefault" /\ content[n][m].id = T})

\* T is the base name of another file of the map
NamesOtherFile(map, i, T) ==
    \E j \in 1..Len(map) : j # i /\ map[j].path.name.base = T

\* C14: fixMissingImports adds one import line for a tag T of a component
\* file F when T is not imported in F, is not the name of F and is the base
\* name of another file, and adds none in every other case.
C14_ImportAddedExactlyWhenMissing ==
    Applied(<<"fixMissingImports">>) =>
        \A i \in 1..Len(prevMap) :
            IsTsxJsx(prevMap[i].path) =>
                \A T \in TagsIn(Flatten(prevMap[i].content)) :
                    ImportLinesOf(currentMap[i].content, T)
                        - ImportLinesOf(prevMap[i].content, T)
                    = IF /\ T \notin ImportedIn(Flatten(prevMap[i].content))
                         /\ T # prevMap[i].path.name.base
                         /\ NamesOtherFile(prevMap, i, T)
                      THEN 1 ELSE 0

\* the map holds a root component at one of the candidate root paths
HasRoot(map) == \E c \in 1..Len(appCandidates) : mapHas(map, appCandidates[c])

\* C15: convertVanillaToReact changes nothing and reports no conversion
\* when the map holds a root component at a candidate root path.
C15_ConversionSkippedWithRoot ==
    (Applied(<<"convertVanillaToReact">>) /\ HasRoot(prevMap)) =>
        (currentMap = prevMap /\ ~wasPatched)

\* the markup file that convertVanillaToReact reads
ConvertedHtml(map) ==
    IF mapHas(map, RootIndexHtml) THEN RootIndexHtml
    ELSE IF mapHas(map, SrcIndexHtml) THEN SrcIndexHtml
    ELSE PortfolioIndexHtml

\* the markup, script and stylesheet files of a map
IsOriginal(map, path) ==
    path = ConvertedHtml(map) \/ path.name.ext \in {"js", "css"}

\* C16: after a conversion the map holds the synthesized root component and
\* none of the markup, script and stylesheet files of the input.
C16_OriginalsAbsentAfterConversion ==
    (Applied(<<"convertVanillaToReact">>) /\ wasPatched) =>
        /\ mapHas(currentMap, SrcApp("tsx"))
        /\ mapGet(currentMap, SrcApp("tsx")).content
              = generateReactComponent(SelectSeq(prevMap, LAMBDA f : IsVanillaJs(f.path)))
        /\ \A i \in 1..Len(prevMap) :
              IsOriginal(prevMap, prevMap[i].path) => ~mapHas(currentMap, prevMap[i].path)

HasIndexHtml(map) ==
    mapHas(map, RootIndexHtml) \/ mapHas(map, SrcIndexHtml) \/ mapHas(map, PortfolioIndexHtml)

\* the file at the path is synthesized text of that sort
IsGenerated(map, path, what) ==
    /\ mapHas(map, path)
    /\ \E n \in 1..Len(mapGet(map, path).content) :
          mapGet(map, path).content[n] = <<Generated(what)>>

\* the file at the path is a file of the project, not synthesized text
IsProjectFile(map, path) ==
    /\ mapHas(map, path)
    /\ ~IsGenerated(map, path, "converted")
    /\ ~IsGenerated(map, path, "placeholder")

RootPaths == {appCandidates[c] : c \in 1..Len(appCandidates)}

\* C19: the file map repaired by createReactFileTree has a root component
\* at a candidate root path; a root of the input is kept, an input with an
\* index.html and no root gets the converted root, and the placeholder is
\* synthesized only for an input with neither.
C19_RootDiscovery ==
    Applied(<<"createReactFileTree">>) =>
        /\ HasRoot(currentMap)
        /\ \A p \in RootPaths : mapHas(inputMap, p) => IsProjectFile(currentMap, p)
        /\ (~HasRoot(inputMap) /\ HasIndexHtml(inputMap))
              => IsGenerated(currentMap, SrcApp("tsx"), "converted")
        /\ (\E p \in RootPaths : IsGenerated(currentMap, p, "placeholder"))
              => (~HasRoot(inputMap) /\ ~HasIndexHtml(inputMap))

(***************************************************************************)
(* Bundle synthesis (buildPreview).  The content of a code file is a       *)
(* sequence of lines, each line a statement of one of the kinds below.     *)
(***************************************************************************)
ImportLine == [s |-> "import"]                  \* import X from 'y';
ImportBrace == [s |-> "importOpen"]             \* import {
ImportRest == [s |-> "importRest"]              \*   useState } from 'react';
ExportDefaultDecl(kind, id) == [s |-> "exportDefaultDecl", kind |-> kind, id |-> id]
ExportDefaultExpr(id) == [s |-> "exportDefaultExpr", id |-> id]   \* export default App;
ExportNamed(kind, id) == [s |-> "exportNamed", kind |-> kind, id |-> id]
ExportAsync(id) == [s |-> "exportAsync", id |-> id]   \* export async function f
ExportList(id) == [s |-> "exportList", id |-> id]     \* export { App };
ExportWord == [s |-> "exportWord"]              \* what is left of `export interface X {}`
Declaration(kind, id) == [s |-> "decl", kind |-> kind, id |-> id]
Expr(id) == [s |-> "expr", id |-> id]
Jsx(id) == [s |-> "jsx", id |-> id]
CreateElement(id) == [s |-> "createElement", id |-> id]
Blank == [s |-> "blank"]
Code == [s |-> "code"]

\* the declaration kinds that the named-export pattern of buildPreview lists
DeclKinds == {"const", "let", "var", "function", "class", "enum", "interface", "type"}

\* lines 123-130 of buildPreview on one line of the content
stripLine(line) ==
    IF line.s \in {"import", "importOpen"} THEN Blank
    ELSE IF line.s = "exportDefaultDecl" THEN Declaration(line.kind, line.id)
    ELSE IF line.s = "exportDefaultExpr" THEN Expr(line.id)
    ELSE IF line.s = "exportNamed" /\ line.kind \in DeclKinds THEN Declaration(line.kind, line.id)
    ELSE line

\* sucrase with the transforms jsx and typescript, on one line: type
\* declarations go, an enum becomes a var, JSX becomes a call
transformLine(line) ==
    IF line.s = "decl" /\ line.kind \in {"interface", "type"} THEN Blank
    ELSE IF line.s = "decl" /\ line.kind = "enum" THEN Declaration("var", line.id)
    ELSE IF line.s = "jsx" THEN CreateElement(line.id)
    ELSE line

\* `/* Error transforming ${file.path}: ${e} */`
ErrorComment(path) == <<[s |-> "comment", path |-> path, e |-> "SyntaxError"]>>

\* the chunk of one file: the return values of the callback of orderedFiles.map
transformChunkRethrows(file, throws) ==
    IF throws THEN [threw |-> TRUE, code |-> <<>>]
    ELSE [threw |-> FALSE,
          code |-> [n \in 1..Len(file.content) |->
                      transformLine(stripLine(file.content[n]))]]

transformChunk(file, throws) ==
    IF throws THEN [threw |-> FALSE, code |-> ErrorComment(file.path)]
    ELSE [threw |-> FALSE,
          code |-> [n \in 1..Len(file.content) |->
                      transformLine(stripLine(file.content[n]))]]

\* /\.(tsx?|jsx?)$/.test(f.path)
IsCodeFile(path) == path.name.ext \in {"tsx", "ts", "jsx", "js"}

\* /\/App\.(tsx|jsx|ts|js)$/.test(f.path) || f.path === 'App.tsx' || f.path === 'App.jsx'
IsAppFile(path) ==
    /\ path.name.base = "App"
    /\ \/ path.dir # <<>> /\ path.name.ext \in {"tsx", "jsx", "ts", "js"}
       \/ path.dir = <<>> /\ path.name.ext \in {"tsx", "jsx"}

\* the base names of the model that end in "main"
EndsInMain(base) == base \in {"main", "Domain"}

\* /main\.(tsx|jsx|ts|js)$/.test(f.path): the pattern is not anchored at the
\* start of the file name
IsMainFile(path) == EndsInMain(path.name.base) /\ IsCodeFile(path)

\* the bundle with the root component first
orderedFilesAppFirst(flatFiles) ==
    LET codeFiles == SelectSeq(flatFiles, LAMBDA f : IsCodeFile(f.path))
        apps == {i \in 1..Len(codeFiles) : IsAppFile(codeFiles[i].path)}
        mains == {i \in 1..Len(codeFiles) : IsMainFile(codeFiles[i].path)}
        appFile == IF apps = {} THEN <<>> ELSE <<codeFiles[SetMin(apps)]>>
        mainFile == IF mains = {} THEN <<>> ELSE <<codeFiles[SetMin(mains)]>>
        componentFiles == SelectSeq(codeFiles, LAMBDA f : <<f>> # appFile /\ <<f>> # mainFile)
    IN appFile \o componentFiles

\* "Order: components first, then App"; appFile and mainFile are sequences
\* of length 0 (undefined) or 1
orderedFiles(flatFiles) ==
    LET codeFiles == SelectSeq(flatFiles, LAMBDA f : IsCodeFile(f.path))
        apps == {i \in 1..Len(codeFiles) : IsAppFile(codeFiles[i].path)}
        mains == {i \in 1..Len(codeFiles) : IsMainFile(codeFiles[i].path)}
        appFile == IF apps = {} THEN <<>> ELSE <<codeFiles[SetMin(apps)]>>
        mainFile == IF mains = {} THEN <<>> ELSE <<codeFiles[SetMin(mains)]>>
        componentFiles == SelectSeq(codeFiles, LAMBDA f : <<f>> # appFile /\ <<f>> # mainFile)
    IN componentFiles \o appFile

\* cleanComponentForCDN: the same stripping in the CDN variant, with the
\* final trim()
RECURSIVE dropBlankStart(_)
dropBlankStart(lines) ==
    IF lines # <<>> /\ Head(lines) = Blank THEN dropBlankStart(Tail(lines)) ELSE lines

RECURSIVE dropBlankEnd(_)
dropBlankEnd(lines) ==
    IF lines # <<>> /\ lines[Len(lines)] = Blank
    THEN dropBlankEnd(SubSeq(lines, 1, Len(lines) - 1))
    ELSE lines

cleanLine(line) ==
    IF line.s \in {"import", "importOpen", "exportList"} THEN Blank
    ELSE IF line.s = "exportDefaultDecl" THEN Declaration(line.kind, line.id)
    ELSE IF line.s = "exportDefaultExpr" THEN Expr(line.id)
    ELSE IF line.s = "exportNamed"
                /\ line.kind \in {"const", "let", "var", "function", "class"}
    THEN Declaration(line.kind, line.id)
    ELSE IF line.s = "exportNamed" /\ line.kind \in {"interface", "type"} THEN ExportWord
    ELSE IF line.s = "decl" /\ line.kind \in {"interface", "type"} THEN Blank
    ELSE line

cleanComponentForCDN(code) ==
    dropBlankEnd(dropBlankStart([n \in 1..Len(code) |-> cleanLine(code[n])]))

MaxFiles == 3

SrcFile(dirs, base, ext) == FilePath(<<"src">> \o dirs, FileName(base, ext))

BundleContents(path) ==
    IF path = SrcFile(<<>>, "App", "tsx")
    THEN {<<ImportLine, ExportDefaultDecl("function", "App"), Jsx("Card")>>,
          <<ImportBrace, ImportRest, Declaration("function", "App"), ExportDefaultExpr("App")>>,
          <<ImportLine, Declaration("const", "App"), ExportList("App")>>}
    ELSE IF path = SrcFile(<<"components">>, "Card", "tsx")
    THEN {<<ExportNamed("interface", "CardProps"), ExportDefaultDecl("class", "Card")>>,
          <<ExportNamed("type", "CardProps"), ExportNamed("function", "Card"), Jsx("div")>>,
          <<ImportLine, Declaration("enum", "Size"), ExportNamed("enum", "Kind"),
            ExportNamed("const", "Card")>>}
    ELSE IF path = SrcFile(<<"utils">>, "api", "ts")
    THEN {<<ExportAsync("load")>>,
          <<ExportNamed("let", "cache"), ExportNamed("var", "hits"),
            ExportNamed("class", "Api")>>,
          <<Declaration("interface", "Reply"), Code>>}
    ELSE IF path = SrcFile(<<>>, "main", "tsx")
    THEN {<<ImportLine, Code>>}
    ELSE IF path = SrcFile(<<"components">>, "Domain", "tsx")
    THEN {<<ExportDefaultDecl("function", "Domain")>>}
    ELSE IF path = SrcFile(<<>>, "App", "jsx")
    THEN {<<ExportDefaultDecl("function", "App")>>}
    ELSE {<<Code>>}

BundlePaths ==
    {SrcFile(<<>>, "App", "tsx"), SrcFile(<<"components">>, "Card", "tsx"),
     SrcFile(<<"utils">>, "api", "ts"), SrcFile(<<>>, "main", "tsx"),
     SrcFile(<<>>, "App", "css"), SrcFile(<<"components">>, "Domain", "tsx"),
     SrcFile(<<>>, "App", "jsx")}

PathsOf(flatFiles) == {flatFiles[i].path : i \in 1..Len(flatFiles)}

\* the file lists of n files with distinct paths
RECURSIVE FileLists(_)
FileLists(n) ==
    IF n = 0 THEN {<<>>}
    ELSE UNION {UNION {{Append(fs, FlatFile(q, c)) : c \in BundleContents(q)} :
                       q \in BundlePaths \ PathsOf(fs)} :
                fs \in FileLists(n - 1)}

BundleInputs == UNION {FileLists(n) : n \in 0..MaxFiles}

InitBundle ==
    /\ response = <<>>
    /\ generatedSteps = <<>>
    /\ steps = <<>>
    /\ files = <<>>
    /\ toast = ""
    /\ pc = "stream"
    /\ HostUnused
    /\ WcUnused
    /\ RepairUnused
    /\ LaterUnused
    /\ bundleFiles \in BundleInputs
    /\ failing \in SUBSET PathsOf(orderedFiles(bundleFiles))
    /\ transformedChunks = <<>>
    /\ built = "no"

\* buildPreview up to transformedChunks
BuildPreview ==
    /\ built = "no"
    /\ LET ordered == orderedFiles(bundleFiles)
           results == [i \in 1..Len(ordered) |->
                          transformChunk(ordered[i], ordered[i].path \in failing)]
       IN IF \E i \in 1..Len(ordered) : results[i].threw
          THEN /\ built' = "threw"
               /\ transformedChunks' = <<>>
          ELSE /\ built' = "returned"
               /\ transformedChunks' =
                     [i \in 1..Len(ordered) |->
                         [path |-> ordered[i].path, code |-> results[i].code]]
    /\ UNCHANGED <<parseVars, files, hostVars, wcVars, repairVars, laterVars, bundleFiles, failing>>

\* createFileTree: ['src/App.tsx', 'src/App.jsx', 'src/App.ts', 'src/App.js',
\* 'App.tsx', 'App.jsx']
cdnAppCandidates ==
    <<SrcApp("tsx"), SrcApp("jsx"), SrcApp("ts"), SrcApp("js"),
      FilePath(<<>>, FileName("App", "tsx")), FilePath(<<>>, FileName("App", "jsx"))>>

\* the chunk of the root component when the file set has none
NoPath == FilePath(<<>>, FileName("", ""))

\* createFileTree: the cleaned components, the others first, then the App
cleanedComponents(flatFiles) ==
    LET isApp(path) == \E c \in 1..Len(cdnAppCandidates) : path = cdnAppCandidates[c]
        found == {c \in 1..Len(cdnAppCandidates) : mapHas(flatFiles, cdnAppCandidates[c])}
        app == IF found = {}
               THEN FlatFile(NoPath, <<Blank, Declaration("function", "App"), Blank>>)
               ELSE mapGet(flatFiles, cdnAppCandidates[SetMin(found)])
        others == SelectSeq(flatFiles, LAMBDA f :
                      /\ IsCodeFile(f.path)
                      /\ ~InNodeModules(f.path)
                      /\ ~isApp(f.path)
                      /\ ~EndsInMain(f.path.name.base))
        chunkOf(f) == [path |-> f.path, code |-> cleanComponentForCDN(f.content)]
    IN [i \in 1..Len(others) |-> chunkOf(others[i])] \o <<chunkOf(app)>>

\* the CDN variant of the synthesis
CreateFileTree ==
    /\ built = "no"
    /\ failing = {}
    /\ built' = "cleaned"
    /\ transformedChunks' = cleanedComponents(bundleFiles)
    /\ UNCHANGED <<parseVars, files, hostVars, wcVars, repairVars, laterVars, bundleFiles, failing>>

NextBundle == BuildPreview \/ CreateFileTree

SpecBundle == InitBundle /\ [][NextBundle]_vars

\* the input file of a chunk
SourceOf(chunk) ==
    bundleFiles[CHOOSE i \in 1..Len(bundleFiles) : bundleFiles[i].path = chunk.path]

Transpiled(chunk) == chunk.path \notin failing

IsImportLine(line) == line.s \in {"import", "importOpen"}

HasExportQualifier(line) ==
    line.s \in {"exportDefaultDecl", "exportDefaultExpr", "exportNamed",
                "exportAsync", "exportList", "exportWord"}

\* the line is a default-exported function or class declaration or a
\* named-exported const, let, var, function or class declaration
IsExportedDeclaration(line) ==
    \/ line.s = "exportDefaultDecl" /\ line.kind \in {"function", "class"}
    \/ line.s = "exportNamed" /\ line.kind \in {"const", "let", "var", "function", "class"}

HasLine(code, line) == \E n \in 1..Len(code) : code[n] = line

\* C17: the chunk of every transpiled file has no import line and no export
\* qualifier, and every exported declaration of the file is in the chunk as
\* a plain declaration of the same kind and identifier.
C17_ExportsStripped ==
    built = "returned" =>
        \A i \in 1..Len(transformedChunks) :
            Transpiled(transformedChunks[i]) =>
                /\ \A n \in 1..Len(transformedChunks[i].code) :
                      /\ ~IsImportLine(transformedChunks[i].code[n])
                      /\ ~HasExportQualifier(transformedChunks[i].code[n])
                /\ \A n \in 1..Len(SourceOf(transformedChunks[i]).content) :
                      LET line == SourceOf(transformedChunks[i]).content[n] IN
                      IsExportedDeclaration(line) =>
                          HasLine(transformedChunks[i].code, Declaration(line.kind, line.id))

\* C18: buildPreview returns whichever transforms fail; the chunk of a file
\* whose transform fails is the comment that names the file and the
\* failure, and every other chunk is, at the same place, the chunk that the
\* file gives when all transforms succeed.
C18_FaultContained ==
    built # "no" =>
        /\ built # "threw"
        /\ built = "returned" =>
              /\ Len(transformedChunks) = Len(orderedFiles(bundleFiles))
              /\ \A i \in 1..Len(transformedChunks) :
                    /\ transformedChunks[i].path = orderedFiles(bundleFiles)[i].path
                    /\ transformedChunks[i].code =
                          IF transformedChunks[i].path \in failing
                          THEN ErrorComment(transformedChunks[i].path)
                          ELSE transformChunk(orderedFiles(bundleFiles)[i], FALSE).code

\* one of three files fails to transpile and the synthesis has returned
C18_Witness ==
    /\ built = "returned"
    /\ Cardinality(failing) = 1
    /\ Len(transformedChunks) = 3
    /\ transformedChunks[2].path \in failing

\* C20: whenever the host shows a non-empty file set with status ready, the
\* iframe is on the page and its src is the object URL of the live bundle,
\* the one made for these files.
C20_IframeShowsLiveBundle ==
    (mounted = "yes" /\ status = "ready" /\ files # <<>>) =>
        /\ iframeAttached
        /\ blobUrlRef \in LiveUrls
        /\ objectUrls[blobUrlRef].bundle = files
        /\ iframeSrc = blobUrlRef

Synthesized == built \in {"returned", "cleaned"}

PositionOf(path) == CHOOSE i \in 1..Len(bundleFiles) : bundleFiles[i].path = path

\* the root component of the file set: for buildPreview the first file named
\* App, for createFileTree the first candidate path that the set has
RootPath ==
    IF built = "returned"
    THEN LET apps == {i \in 1..Len(bundleFiles) :
                        IsCodeFile(bundleFiles[i].path) /\ IsAppFile(bundleFiles[i].path)}
         IN IF apps = {} THEN {} ELSE {bundleFiles[SetMin(apps)].path}
    ELSE LET found == {c \in 1..Len(cdnAppCandidates) :
                         mapHas(bundleFiles, cdnAppCandidates[c])}
         IN IF found = {} THEN {NoPath} ELSE {cdnAppCandidates[SetMin(found)]}

\* C21: in the bundle the chunks of the files that are not the root
\* component stand first, in the order of the file set, and the chunk of the
\* root component is the last one.
C21_RootChunkLast ==
    Synthesized =>
        /\ \A i \in 1..Len(transformedChunks) :
              transformedChunks[i].path \in RootPath => i = Len(transformedChunks)
        /\ (RootPath # {} /\ (\E i \in 1..Len(bundleFiles) : bundleFiles[i].path \in RootPath))
              => /\ transformedChunks # <<>>
                 /\ transformedChunks[Len(transformedChunks)].path \in RootPath
        /\ \A i, j \in 1..Len(transformedChunks) :
              (i < j /\ transformedChunks[j].path \notin RootPath)
                  => PositionOf(transformedChunks[i].path) < PositionOf(transformedChunks[j].path)

\* the root component is the first file of the set and its chunk the last of three
C21_Witness ==
    /\ built = "returned"
    /\ Len(transformedChunks) = 3
    /\ bundleFiles[1].path \in RootPath
    /\ transformedChunks[3].path = bundleFiles[1].path

ChunksOf(path) == {i \in 1..Len(transformedChunks) : transformedChunks[i].path = path}

\* C22: a file named main.<ext> has no chunk in the bundle and every other
\* code file of the set, the root component included, has exactly one.
C22_OneChunkPerComponent ==
    Synthesized =>
        \A i \in 1..Len(bundleFiles) :
            IsCodeFile(bundleFiles[i].path) =>
                Cardinality(ChunksOf(bundleFiles[i].path))
                    = IF bundleFiles[i].path.name.base = "main" THEN 0 ELSE 1

\* n times the segment ..
RECURSIVE Ups(_)
Ups(n) == IF n = 0 THEN <<>> ELSE <<"..">> \o Ups(n - 1)

\* the ways to read a relative path to a file as segments: ../ some times
\* or ./ once, then some of the folders of the file, then its name
Readings(from, to) ==
    {prefix \o SubSeq(to.dir, c + 1, Len(to.dir)) \o <<to.name.base>> :
        prefix \in {<<".">>} \cup {Ups(n) : n \in 1..Len(from.dir) + 1},
        c \in 0..Len(to.dir)}

\* the segments of a relative path, the empty set when it is no such path
Segments(path, from, to) == {segs \in Readings(from, to) : JoinSlash(segs) = path}

\* the folder levels of from below the deepest folder that holds both files
LevelsBelowCommon(from, to) ==
    Len(from.dir)
        - SetMax({k \in 0..Len(from.dir) :
                    k <= Len(to.dir) /\ SubSeq(from.dir, 1, k) = SubSeq(to.dir, 1, k)})

LeadingUps(segs) ==
    SetMax({n \in 0..Len(segs) : \A i \in 1..n : segs[i] = ".."})

\* the pairs that fixMissingImports hands to getRelativeImportPath
ImportPairs ==
    {<<currentMap[i].path, currentMap[j].path>> :
        i \in {n \in 1..Len(currentMap) : IsTsxJsx(currentMap[n].path)},
        j \in {n \in 1..Len(currentMap) : IsImportTarget(currentMap[n].path)}}

\* C23: the path returned for (from, to), resolved against the folder of
\* from, is to without its extension; it starts with ./ when from has no
\* folder level below the common folder and otherwise with one ../ for every
\* such level.
C23_RelativePathRoundTrip ==
    \A pair \in ImportPairs :
        LET from == pair[1]
            to == pair[2]
            read == Segments(getRelativeImportPath(from, to), from, to)
        IN /\ read # {}
           /\ \A segs \in read :
                 /\ resolveParts(from.dir, segs) = to.dir \o <<to.name.base>>
                 /\ (segs[1] = ".") <=> (LevelsBelowCommon(from, to) = 0)
                 /\ LeadingUps(segs) = LevelsBelowCommon(from, to)

\* fixMissingImports has added imports that climb one folder: from the Card
\* component to the root and from a page to the Card component
C23_Witness ==
    /\ Applied(<<"fixMissingImports">>)
    /\ mapHas(currentMap, CardPath)
    /\ HasLine(Flatten(mapGet(currentMap, CardPath).content), ImportDefault("App", "../App"))
    /\ mapHas(currentMap, HomePath)
    /\ HasLine(Flatten(mapGet(currentMap, HomePath).content),
               ImportDefault("Card", "../components/Card"))

\* the part belongs to an import statement
IsImportPart(part) ==
    part.s \in {"importDefault", "importNamed", "importMixed", "importOpen",
                "member", "closeFrom", "importCss", "importCssAs"}

\* the place of the last part of the last import statement, 0 without one
LastImportPart(parts) ==
    SetMax({0} \cup {n \in 1..Len(parts) : IsImportPart(parts[n])})

\* C24: the import lines that fixMissingImports adds to a file stand
\* directly after the last import statement of the file, or before
\* everything else when the file has no import statement.
C24_InsertedAfterLastImport ==
    Applied(<<"fixMissingImports">>) =>
        \A i \in 1..Len(prevMap) :
            currentMap[i].content # prevMap[i].content =>
                LET before == Flatten(prevMap[i].content)
                    after == Flatten(currentMap[i].content)
                    at == LastImportPart(before)
                    added == Len(after) - Len(before)
                IN /\ added >= 1
                   /\ SubSeq(after, 1, at) = SubSeq(before, 1, at)
                   /\ SubSeq(after, at + added + 1, Len(after))
                         = SubSeq(before, at + 1, Len(before))
                   /\ \A n \in at + 1..at + added : after[n].s = "importDefault"

\* the fenced blocks of the response are scanned: no tagged block and no
\* header pattern gave a section
FencedStrategy == ParseReturned /\ ~XmlFound(response) /\ ~HeaderFound(response)

\* the trimmed bodies of the fenced blocks of the response that have at
\* least min characters, in order
BodiesFrom(min) ==
    LET blocks == codeBlockMatches(response, 1)
        long == SelectSeq(blocks, LAMBDA b : TextLen(Trimmed(b.code)) >= min)
    IN [i \in 1..Len(long) |-> Trimmed(long[i].code)]

StepCodes == [i \in 1..Len(generatedSteps) |-> generatedSteps[i].code]

\* C25 as stated: a fenced block yields a section when its trimmed body has
\* 20 or more characters and is discarded when it has fewer.
C25_KeptFromTwenty == FencedStrategy => StepCodes = BodiesFrom(MinCodeLen)

\* C25: a fenced block yields a section when its trimmed body has more than
\* 20 characters and is discarded when it has 20 or fewer.
C25_KeptAboveTwenty == FencedStrategy => StepCodes = BodiesFrom(MinCodeLen + 1)

\* a block of exactly 20 characters is discarded, one of 21 gives the step
C25_Witness ==
    /\ FencedStrategy
    /\ Len(BodiesFrom(MinCodeLen)) = 2
    /\ Len(BodiesFrom(MinCodeLen + 1)) = 1
    /\ Len(generatedSteps) = 1

\* ------------------------------------------------------------------
\* Builder: the effect that assembles the file tree from the pending steps
\* (pages/Builder.tsx). A path is the sequence of its segments; the path of
\* a node, "/s1/.../sk" in the code, is the sequence s1..sk.
\* ------------------------------------------------------------------

FileNode(name, path, content) ==
    [name |-> name, type |-> "file", path |-> path, content |-> content,
     children |-> <<>>]

FolderNode(name, path) ==
    [name |-> name, type |-> "folder", path |-> path, content |-> "",
     children |-> <<>>]

\* currentFileStructure.find(x => x.path === currentFolder): its index, 0 = none
findByPath(nodes, path) ==
    IF \E i \in 1..Len(nodes) : nodes[i].path = path
    THEN CHOOSE i \in 1..Len(nodes) :
            /\ nodes[i].path = path
            /\ \A j \in 1..(i - 1) : nodes[j].path # path
    ELSE 0

\* the while loop over parsedPath: the level with the step added, and whether
\* the walk went into a node without children (a TypeError at the next find)
RECURSIVE walkPath(_, _, _, _)
walkPath(nodes, parsedPath, currentFolder, code) ==
    LET folderPath == Append(currentFolder, Head(parsedPath))
        rest == Tail(parsedPath)
        at == findByPath(nodes, folderPath)
    IN  IF rest = <<>>
        THEN [nodes |-> IF at = 0
                        THEN Append(nodes, FileNode(Head(parsedPath), folderPath, code))
                        ELSE [nodes EXCEPT ![at].content = code],
              threw |-> FALSE]
        ELSE LET pushed == IF at = 0
                           THEN Append(nodes, FolderNode(Head(parsedPath), folderPath))
                           ELSE nodes
                 k == IF at = 0 THEN Len(pushed) ELSE at
             IN  IF pushed[k].type = "file"
                 THEN [nodes |-> pushed, threw |-> TRUE]
                 ELSE LET below == walkPath(pushed[k].children, rest, folderPath, code)
                      IN  [nodes |-> [pushed EXCEPT ![k].children = below.nodes],
                           threw |-> below.threw]

\* the body of the map over the pending steps, for one step
assembleStep(nodes, step) ==
    IF step.path # <<>> /\ step.code # ""
    THEN walkPath(nodes, step.path, <<>>, step.code)
    ELSE [nodes |-> nodes, threw |-> FALSE]

RECURSIVE assemblePending(_, _)
assemblePending(nodes, pending) ==
    IF pending = <<>> THEN [nodes |-> nodes, threw |-> FALSE]
    ELSE LET one == assembleStep(nodes, Head(pending))
         IN  IF one.threw THEN one
             ELSE assemblePending(one.nodes, Tail(pending))

IsPending(step) == step.status = "pending"

MaxSteps == 3
MaxBatch == 2

StepPaths ==
    { <<"index.html">>, <<"src", "App.tsx">>, <<"src", "components", "Card.tsx">>,
      <<"src">>, <<"src", "components">> }

StepCodeSet == {"", "a", "b"}

PendingStep(path, code) == [path |-> path, code |-> code, status |-> "pending"]

Batches ==
    UNION { [1..n -> {PendingStep(path, code) : path \in StepPaths, code \in StepCodeSet}]
            : n \in 1..MaxBatch }

InitBuilder ==
    /\ response = <<>>
    /\ generatedSteps = <<>>
    /\ steps = <<>>
    /\ files = <<>>
    /\ toast = "none"
    /\ pc = "idle"
    /\ HostUnused
    /\ WcUnused
    /\ RepairUnused
    /\ BundleUnused
    /\ BootUnused
    /\ GenUnused
    /\ BuilderUnused
    /\ unmounted = FALSE

\* init(): setSteps(parseXml(...).map(pending)), then
\* setSteps(current => [...current, ...parseXml(...).map(pending)])
SetSteps(batch) ==
    /\ ~builderThrew
    /\ \A i \in 1..Len(builderSteps) : ~IsPending(builderSteps[i])
    /\ Len(builderSteps) + Len(batch) <= MaxSteps
    /\ builderSteps' = builderSteps \o batch
    /\ UNCHANGED <<parseVars, files, hostVars, wcVars, repairVars, bundleVars,
                   bootVars, genVars, unmounted, builderFiles, builderThrew>>

\* the effect on [steps, files]
StepsEffect ==
    /\ ~builderThrew
    /\ \E i \in 1..Len(builderSteps) : IsPending(builderSteps[i])
    /\ LET done == assemblePending(builderFiles, SelectSeq(builderSteps, IsPending))
       IN  IF done.threw
           THEN /\ builderThrew' = TRUE
                /\ UNCHANGED <<builderSteps, builderFiles>>
           ELSE /\ builderThrew' = FALSE
                /\ builderFiles' = done.nodes
                /\ builderSteps' =
                       [i \in 1..Len(builderSteps) |->
                           [builderSteps[i] EXCEPT !.status = "completed"]]
    /\ UNCHANGED <<parseVars, files, hostVars, wcVars, repairVars, bundleVars,
                   bootVars, genVars, unmounted>>

NextBuilder ==
    \/ \E batch \in Batches : SetSteps(batch)
    \/ StepsEffect

SpecBuilder == InitBuilder /\ [][NextBuilder]_vars

\* every node of the tree, with the path of the node that holds it
RECURSIVE TreeNodes(_, _)
TreeNodes(nodes, under) ==
    IF nodes = <<>> THEN <<>>
    ELSE <<[path |-> Head(nodes).path, type |-> Head(nodes).type, under |-> under]>>
         \o TreeNodes(Head(nodes).children, Head(nodes).path)
         \o TreeNodes(Tail(nodes), under)

Prefix(path, k) == SubSeq(path, 1, k)

IsProperPrefix(a, b) == Len(a) < Len(b) /\ Prefix(b, Len(a)) = a

\* no step names as a file what another step names as a folder
ConflictFree ==
    \A i, j \in 1..Len(builderSteps) :
        ~IsProperPrefix(builderSteps[i].path, builderSteps[j].path)

Assembled ==
    /\ builderSteps # <<>>
    /\ ~builderThrew
    /\ \A i \in 1..Len(builderSteps) : ~IsPending(builderSteps[i])

HasNode(flat, type, path) ==
    \E n \in 1..Len(flat) :
        /\ flat[n].path = path
        /\ flat[n].type = type
        /\ flat[n].under = Prefix(path, Len(path) - 1)

\* C26: after the assembly of a list of steps, the tree holds for every step
\* a Folder node for each proper prefix of its path and a File node at the
\* path, each inside the node of the prefix before it, and no two nodes of
\* the tree have the same path.
C26_TreeHoldsEveryPair ==
    (Assembled /\ ConflictFree) =>
        LET flat == TreeNodes(builderFiles, <<>>)
        IN  /\ \A i \in 1..Len(builderSteps) :
                  LET path == builderSteps[i].path
                  IN  /\ \A k \in 1..(Len(path) - 1) :
                            HasNode(flat, "folder", Prefix(path, k))
                      /\ HasNode(flat, "file", path)
            /\ \A m, n \in 1..Len(flat) : m # n => flat[m].path # flat[n].path

\* ------------------------------------------------------------------
\* useWebContainer (hooks/useWebContainer.ts, the hook with bootError and
\* retry). The k-th call of WebContainer.boot returns promise k, which
\* resolves to instance k. A promise that settles resumes every function
\* awaiting it before any other event is handled.
\* ------------------------------------------------------------------

MaxHooks == 3

\* what the rejection's message mentions
RejectionKinds == {"Cross-Origin", "other"}

\* the catch block's choice of the message
bootErrorFor(kind) ==
    IF kind = "Cross-Origin" THEN "headers"
    ELSE IF kind = "timed out" THEN "timedOut"
    ELSE "failed"

Hook(pcOf, promise, instance, bootErr) ==
    [pc |-> pcOf, promise |-> promise, webcontainer |-> instance, bootError |-> bootErr]

Awaits(hook, k) == hook.pc \in {"waiting", "racing"} /\ hook.promise = k

InitBoot ==
    /\ response = <<>>
    /\ generatedSteps = <<>>
    /\ steps = <<>>
    /\ files = <<>>
    /\ toast = "none"
    /\ pc = "idle"
    /\ HostUnused
    /\ WcUnused
    /\ RepairUnused
    /\ BundleUnused
    /\ BuilderUnused
    /\ GenUnused
    /\ BootUnused
    /\ unmounted = FALSE

BootOthers ==
    <<parseVars, files, hostVars, wcVars, repairVars, bundleVars, builderVars, genVars,
      unmounted>>

\* a component using the hook mounts: useState(webcontainerInstance), then
\* the effect calls initWebContainer, which runs to its first await
Mount ==
    /\ Len(hooks) < MaxHooks
    /\ IF webcontainerInstance # 0
       THEN /\ hooks' = Append(hooks, Hook("done", 0, webcontainerInstance, "none"))
            /\ UNCHANGED <<webcontainerInstance, bootPromise, boots>>
       ELSE IF bootPromise # 0
       THEN /\ hooks' = Append(hooks, Hook("waiting", bootPromise, 0, "none"))
            /\ UNCHANGED <<webcontainerInstance, bootPromise, boots>>
       ELSE /\ boots' = Append(boots, "pending")
            /\ bootPromise' = Len(boots) + 1
            /\ hooks' = Append(hooks, Hook("racing", Len(boots) + 1, 0, "none"))
            /\ UNCHANGED webcontainerInstance
    /\ UNCHANGED BootOthers

\* promise k resolves: the awaiting functions continue after their await
BootResolves(k) ==
    /\ k \in 1..Len(boots)
    /\ boots[k] = "pending"
    /\ boots' = [boots EXCEPT ![k] = "resolved"]
    /\ hooks' = [i \in 1..Len(hooks) |->
                    IF Awaits(hooks[i], k)
                    THEN Hook("done", 0, k, hooks[i].bootError)
                    ELSE hooks[i]]
    /\ webcontainerInstance' =
           IF \E i \in 1..Len(hooks) : hooks[i].pc = "racing" /\ hooks[i].promise = k
           THEN k ELSE webcontainerInstance
    /\ UNCHANGED bootPromise
    /\ UNCHANGED BootOthers

\* promise k rejects: the awaiting functions continue in their catch block
BootRejects(k, kind) ==
    /\ k \in 1..Len(boots)
    /\ boots[k] = "pending"
    /\ boots' = [boots EXCEPT ![k] = "rejected"]
    /\ hooks' = [i \in 1..Len(hooks) |->
                    IF Awaits(hooks[i], k)
                    THEN Hook("done", 0, hooks[i].webcontainer, bootErrorFor(kind))
                    ELSE hooks[i]]
    /\ bootPromise' =
           IF \E i \in 1..Len(hooks) : Awaits(hooks[i], k) THEN 0 ELSE bootPromise
    /\ UNCHANGED webcontainerInstance
    /\ UNCHANGED BootOthers

\* the 30 seconds of hook i pass before its race is settled: the race
\* rejects and the function continues in its catch block
BootTimeout(i) ==
    /\ i \in 1..Len(hooks)
    /\ hooks[i].pc = "racing"
    /\ hooks' = [hooks EXCEPT ![i] =
                    Hook("done", 0, hooks[i].webcontainer, bootErrorFor("timed out"))]
    /\ bootPromise' = 0
    /\ UNCHANGED <<webcontainerInstance, boots>>
    /\ UNCHANGED BootOthers

\* retry() of hook i, offered while its bootError is shown; the state it
\* sets is the state the hook has, so the effect with [] dependencies does
\* not run again
retry(i) ==
    /\ i \in 1..Len(hooks)
    /\ hooks[i].bootError # "none"
    /\ hooks' = [hooks EXCEPT ![i] = Hook(hooks[i].pc, hooks[i].promise, 0, "none")]
    /\ bootPromise' = 0
    /\ webcontainerInstance' = 0
    /\ UNCHANGED boots
    /\ UNCHANGED BootOthers

NextBoot ==
    \/ Mount
    \/ \E k \in 1..MaxHooks : BootResolves(k)
    \/ \E k \in 1..MaxHooks, kind \in RejectionKinds : BootRejects(k, kind)
    \/ \E i \in 1..MaxHooks : BootTimeout(i)
    \/ \E i \in 1..MaxHooks : retry(i)

SpecBoot == InitBoot /\ [][NextBoot]_vars

\* a pending boot settles and a running timer fires; nothing obliges a
\* further component to mount or the user to press retry
SpecBootLive ==
    /\ SpecBoot
    /\ \A k \in 1..MaxHooks : WF_vars(BootResolves(k) \/ \E kind \in RejectionKinds : BootRejects(k, kind))
    /\ \A i \in 1..MaxHooks : WF_vars(BootTimeout(i))

\* C27: WebContainer.boot is never called while an earlier call is
\* pending or has resolved, and the hooks that hold an instance hold the
\* same one.
C27_SingleBoot ==
    /\ \A j, k \in 1..Len(boots) : j < k => boots[j] = "rejected"
    /\ \A i, j \in 1..Len(hooks) :
           (hooks[i].webcontainer # 0 /\ hooks[j].webcontainer # 0)
               => hooks[i].webcontainer = hooks[j].webcontainer

\* hook i after retry(): no error, no instance, and initWebContainer over
Retried(i) ==
    /\ i \in 1..Len(hooks)
    /\ hooks[i].pc = "done"
    /\ hooks[i].bootError = "none"
    /\ hooks[i].webcontainer = 0

\* hook i awaits a boot, or returns an instance
Booting(i) ==
    /\ i \in 1..Len(hooks)
    /\ hooks[i].pc \in {"waiting", "racing"} \/ hooks[i].webcontainer # 0

\* C28: after a failed boot attempt and retry(), the hook's boot error is
\* cleared and the hook eventually awaits a new boot attempt or returns a
\* booted instance.
C28_RetryStartsBoot ==
    \A i \in 1..MaxHooks : Retried(i) ~> Booting(i)

\* ------------------------------------------------------------------
\* App: generateProject and the handlers that call it (App.tsx). The k-th
\* call is generation k; its steps and files are the ones parsed from its
\* own response.
\* ------------------------------------------------------------------

MaxGens == 3

InitGen ==
    /\ response = <<>>
    /\ generatedSteps = <<>>
    /\ steps = <<>>
    /\ files = <<>>
    /\ toast = "none"
    /\ pc = "idle"
    /\ HostUnused
    /\ WcUnused
    /\ RepairUnused
    /\ BundleUnused
    /\ BuilderUnused
    /\ BootUnused
    /\ GenUnused
    /\ unmounted = FALSE

GenOthers ==
    <<parseVars, files, hostVars, wcVars, repairVars, bundleVars, builderVars, bootVars,
      unmounted>>

\* generateProject up to its first await: isLoading, steps and files are
\* reset and the template is requested
generateProject ==
    /\ Len(gens) < MaxGens
    /\ gens' = Append(gens, "template")
    /\ appIsLoading' = TRUE
    /\ shown' = 0

\* a project card of the home view
handleProjectSelect ==
    /\ currentView = "home"
    /\ currentView' = "builder"
    /\ generateProject
    /\ UNCHANGED GenOthers

\* the Build button or Enter in the builder view
handleManualSubmit ==
    /\ currentView = "builder"
    /\ ~appIsLoading
    /\ generateProject
    /\ UNCHANGED currentView
    /\ UNCHANGED GenOthers

\* the Back button of the builder view
BackHome ==
    /\ currentView = "builder"
    /\ currentView' = "home"
    /\ UNCHANGED <<gens, appIsLoading, shown>>
    /\ UNCHANGED GenOthers

\* the template request of generation k returns; the chat request is sent
TemplateResponds(k) ==
    /\ k \in 1..Len(gens)
    /\ gens[k] = "template"
    /\ gens' = [gens EXCEPT ![k] = "chat"]
    /\ UNCHANGED <<appIsLoading, shown, currentView>>
    /\ UNCHANGED GenOthers

\* the stream of generation k ends with a response: setSteps, setFiles,
\* and the finally block
ChatCompletes(k) ==
    /\ k \in 1..Len(gens)
    /\ gens[k] = "chat"
    /\ gens' = [gens EXCEPT ![k] = "completed"]
    /\ shown' = k
    /\ appIsLoading' = FALSE
    /\ UNCHANGED currentView
    /\ UNCHANGED GenOthers

\* a request of generation k fails or its response is empty: the catch
\* block and the finally block
GenerationFails(k) ==
    /\ k \in 1..Len(gens)
    /\ gens[k] \in {"template", "chat"}
    /\ gens' = [gens EXCEPT ![k] = "failed"]
    /\ appIsLoading' = FALSE
    /\ UNCHANGED <<shown, currentView>>
    /\ UNCHANGED GenOthers

NextGen ==
    \/ handleProjectSelect
    \/ handleManualSubmit
    \/ BackHome
    \/ \E k \in 1..MaxGens : TemplateResponds(k)
    \/ \E k \in 1..MaxGens : ChatCompletes(k)
    \/ \E k \in 1..MaxGens : GenerationFails(k)

SpecGen == InitGen /\ [][NextGen]_vars

InFlight(k) == gens[k] \in {"template", "chat"}

\* C29: once no generation is in flight, the steps and files shown are
\* those of the generation started last (if it completed), and isLoading
\* is true while any generation is in flight.
C29_LastStartedWins ==
    /\ (/\ gens # <<>>
        /\ \A k \in 1..Len(gens) : ~InFlight(k)
        /\ gens[Len(gens)] = "completed") => shown = Len(gens)
    /\ (\E k \in 1..Len(gens) : InFlight(k)) => appIsLoading

Alive(p) == processes[p].state = "running" /\ ~processes[p].killed

\* C30: the only spawned process that runs without having been killed is
\* the one devProcessRef holds, and after unmount none is left.
C30_ProcessOwned ==
    /\ \A p \in 1..Len(processes) : Alive(p) => devProcessRef = p
    /\ unmounted => \A p \in 1..Len(processes) : ~Alive(p)

====
